---- MODULE Spec2Model ----
(***************************************************************************)
(* A model of the Medical AI Assistant:                                    *)
(*   src/src/embed_index.py  EmbeddingIndexer (build, save, load, search)  *)
(*   src/src/retriever.py    MedicalRetriever (load, search, lookups)      *)
(*   src/src/ingestion.py    DocumentProcessor (chunks, directories)       *)
(*   src/src/qa.py           MedicalQA (generate_response, history)        *)
(*   src/Medical_AI_Assistant.py  FixedRAGGeminiMedicalChatbot             *)
(*                           (is_medical_query, call_gemini_api, chat)     *)
(*                                                                         *)
(* The specifications share the variables:                                 *)
(*   SpecPersist  embed_index.main rewriting the directory while a         *)
(*                MedicalRetriever loads from it, one statement a step     *)
(*   SpecIndexer  the same with an EmbeddingIndexer loading                *)
(*   SpecBuild    embed_index.main alone                                   *)
(*   SpecSearch   whole calls of MedicalRetriever.load_index and search    *)
(*   SpecQueries  the same on fewer directories                            *)
(*   SpecSimilar  whole calls on one EmbeddingIndexer                      *)
(*   SpecServe    concurrent read-only calls on one loaded retriever       *)
(*   SpecCopies   search and search_similar, and callers writing into the  *)
(*                results they were given                                  *)
(*   SpecLookups  the lookups of MedicalRetriever                          *)
(*   SpecGate     the two query gates on typed queries                     *)
(*   SpecChunker  one call of DocumentProcessor.create_chunks, on words    *)
(*   SpecTokens   one call of create_chunks, on characters                 *)
(*   SpecIngest   DocumentProcessor.process_directory                      *)
(*   SpecQA       MedicalQA.load_retriever and generate_response           *)
(*   SpecHistory  MedicalQA's conversation history                         *)
(*   SpecGemini   call_gemini_api, one request a step                      *)
(*   SpecChat     chat, with call_gemini_api inside it                     *)
(*                                                                         *)
(* Numbers are fixed point: a float f is the integer f * Scale.  Python    *)
(* positions are 0-based and are kept 0-based in every result; TLA+        *)
(* sequences are 1-based, so position p is element p + 1.                  *)
(***************************************************************************)
EXTENDS Integers, Sequences, FiniteSets, TLC

VARIABLES
    disk,          \* the artifact directory: file name -> content
    b_pc,          \* builder (embed_index.main): position in its run
    b_chunks,      \* builder: the chunk list it is building from
    r_index,       \* MedicalRetriever.index
    r_chunks,      \* MedicalRetriever.chunks_data
    r_dimension,   \* MedicalRetriever.dimension
    r_is_loaded,   \* MedicalRetriever.is_loaded
    r_model,       \* MedicalRetriever.model
    r_pc,          \* MedicalRetriever.load_index: position in the call
    e_index,       \* EmbeddingIndexer.index
    e_chunks,      \* EmbeddingIndexer.chunks_data
    e_embeddings,  \* EmbeddingIndexer.embeddings
    e_vectorizer,  \* EmbeddingIndexer.vectorizer (its fitted vocabulary)
    e_pc,          \* EmbeddingIndexer.load_index: position in the call
    e_local,       \* EmbeddingIndexer.load_index: its local variables
    out,           \* the last completed call: what it was and what it gave
    th,            \* the call in progress of each thread that uses the retriever
    conversation_history,  \* MedicalQA.conversation_history
    model_name     \* FixedRAGGeminiMedicalChatbot.model_name

vars == <<disk, b_pc, b_chunks, r_index, r_chunks, r_dimension, r_is_loaded,
          r_model, r_pc, e_index, e_chunks, e_embeddings, e_vectorizer, e_pc, e_local,
          out, th,
          conversation_history, model_name>>

appVars       == <<conversation_history, model_name>>
retrieverVars == <<r_index, r_chunks, r_dimension, r_is_loaded, r_model>>
indexerVars   == <<e_index, e_chunks, e_embeddings, e_vectorizer>>
builderVars   == <<b_pc, b_chunks>>

-----------------------------------------------------------------------------
(* Bounds *)

MaxChunks == 2      \* longest chunk list built or stored
MaxK      == 3      \* largest k passed to a search

(* Values that stand for Python's None and for a file that is absent or
   cannot be parsed. *)
None    == [none |-> TRUE]
Missing == [file |-> "missing"]
Partial == [file |-> "partial"]

\* A file that can be read holds its parsed content.
File(content) == [data |-> content]

Readable(f) == "data" \in DOMAIN f

-----------------------------------------------------------------------------
(* Vectors and scores *)

\* float32 values are fixed point with this scale (1.0 is Scale).
Scale == 100

\* The score faiss reports for a result slot it could not fill (-FLT_MAX).
NegFltMax == -1000000

\* The terms a text can hold; a text is the set of its terms.
Terms == {1, 2}
Texts == {{1}, {1, 2}}

\* Output dimension of the retriever's SentenceTransformer (384 for
\* all-MiniLM-L6-v2), scaled down to the model's vector sizes.
ModelDim == 2

RECURSIVE SumSeq(_)
SumSeq(s) == IF s = <<>> THEN 0 ELSE Head(s) + SumSeq(Tail(s))

Dot(a, b) == SumSeq([i \in 1..Len(a) |-> a[i] * b[i]])

\* Integer square root, tabulated once for the squared norms that occur.
SqrtTab == [n \in {k * Scale * Scale : k \in 0..4} |->
              CHOOSE r \in 0..(2 * Scale) : r * r <= n /\ (r + 1) * (r + 1) > n]

\* faiss.normalize_L2: divides a vector by its norm; a zero vector is left
\* as it is.
NormalizeL2(v) ==
    LET n2 == Dot(v, v) IN
    IF n2 = 0 THEN v
    ELSE [i \in 1..Len(v) |-> (v[i] * Scale) \div SqrtTab[n2]]

\* Inner product of two fixed-point vectors, as a fixed-point number.
InnerProduct(a, b) == Dot(a, b) \div Scale

-----------------------------------------------------------------------------
(* Chunks, TF-IDF embeddings, the index *)

\* A chunk record as ingestion writes it (src/src/ingestion.py:105-111).
Chunk(text, i) ==
    [chunk_id |-> <<"doc", i>>, source |-> "doc", text |-> text,
     chunk_index |-> i]

ChunkList(texts) == [i \in 1..Len(texts) |-> Chunk(texts[i], i - 1)]

TextLists == UNION {[1..n -> Texts] : n \in 0..MaxChunks}

\* Every chunk list a build can be given.
Corpora == {ChunkList(t) : t \in TextLists}

RECURSIVE SortedSeq(_)
SortedSeq(S) ==
    IF S = {} THEN <<>>
    ELSE LET m == CHOOSE x \in S : \A y \in S : x <= y
         IN  <<m>> \o SortedSeq(S \ {m})

\* TfidfVectorizer.fit: the vocabulary is the sorted terms of the corpus.
\* sklearn raises ValueError ("empty vocabulary") when no term is left.
FitVocabulary(chunks) ==
    SortedSeq(UNION {chunks[i].text : i \in 1..Len(chunks)})

FitRaises(chunks) == FitVocabulary(chunks) = <<>>

\* TfidfVectorizer.transform: one weight per vocabulary term, zero for a
\* term the text does not hold; terms outside the vocabulary are ignored.
\* (Term weights are 1.0: the idf factor is not modelled.)
Transform(vocab, text) ==
    [i \in 1..Len(vocab) |-> IF vocab[i] \in text THEN Scale ELSE 0]

\* create_embeddings: fit_transform over the chunk texts, in chunk order.
CreateEmbeddings(chunks) ==
    LET vocab == FitVocabulary(chunks) IN
    [i \in 1..Len(chunks) |-> Transform(vocab, chunks[i].text)]

\* create_faiss_index: normalises the rows in place, then adds them in order
\* to a flat inner-product index of the rows' dimension.
NormalizedRows(embeddings) ==
    [i \in 1..Len(embeddings) |-> NormalizeL2(embeddings[i])]

CreateFaissIndex(d, embeddings) ==
    [d |-> d, vecs |-> NormalizedRows(embeddings)]

\* What embed_index.main builds from a chunk list.
BuiltIndex(chunks) ==
    CreateFaissIndex(Len(FitVocabulary(chunks)), CreateEmbeddings(chunks))

NTotal(index) == Len(index.vecs)

-----------------------------------------------------------------------------
(* faiss.IndexFlatIP.search, called at retriever.py:92 and                  *)
(* embed_index.py:175.  The library scans the stored vectors in position    *)
(* order and keeps the k best in a min-heap ordered by (score, position):   *)
(* a vector enters a full heap only when its score is strictly greater than *)
(* the heap's smallest score, and then replaces the heap's smallest entry.  *)
(* The heap is emptied smallest first from the back of the result, and the  *)
(* slots that were never filled are reported as position -1 with score      *)
(* -FLT_MAX.  The Python wrapper asserts the query's dimension.             *)

Entry(score, id) == [score |-> score, id |-> id]

\* (score, position) order of the heap.
HeapLess(a, b) == a.score < b.score \/ (a.score = b.score /\ a.id < b.id)

HeapMin(H) == CHOOSE m \in H : \A e \in H : e = m \/ HeapLess(m, e)

HeapAdd(H, e, k) ==
    IF Cardinality(H) < k THEN H \cup {e}
    ELSE IF HeapMin(H).score < e.score THEN (H \ {HeapMin(H)}) \cup {e}
    ELSE H

RECURSIVE HeapScan(_, _, _, _)
HeapScan(scores, i, H, k) ==
    IF i > Len(scores) THEN H
    ELSE HeapScan(scores, i + 1, HeapAdd(H, Entry(scores[i], i - 1), k), k)

\* The heap's entries, largest (score, position) first.
RECURSIVE HeapReorder(_)
HeapReorder(H) ==
    IF H = {} THEN <<>>
    ELSE HeapReorder(H \ {HeapMin(H)}) \o <<HeapMin(H)>>

Scores(index, qv) == [i \in 1..NTotal(index) |-> InnerProduct(qv, index.vecs[i])]

IndexSearchRaises(index, qv, k) == Len(qv) # index.d \/ k <= 0

IndexSearch(index, qv, k) ==
    LET found == HeapReorder(HeapScan(Scores(index, qv), 1, {}, k))
    IN  found \o [i \in 1..(k - Len(found)) |-> Entry(NegFltMax, -1)]

-----------------------------------------------------------------------------
(* MedicalRetriever.search and EmbeddingIndexer.search_similar               *)

\* Python's list[idx]: a negative idx counts from the end.
PyItem(list, idx) == IF idx >= 0 THEN list[idx + 1] ELSE list[Len(list) + idx + 1]

PyItemRaises(list, idx) == idx >= Len(list) \/ idx < 0 - Len(list)

\* chunk = self.chunks_data[idx].copy(); chunk['similarity_score'] = ...;
\* chunk['rank'] = i + 1   (retriever.py:98-100)
ScoredChunk(chunk, score, rank) ==
    [chunk_id |-> chunk.chunk_id, source |-> chunk.source, text |-> chunk.text,
     chunk_index |-> chunk.chunk_index, similarity_score |-> score,
     rank |-> rank]

\* The guard of the result loop (retriever.py:97).
Keeps(e, min_score, chunks) == e.score >= min_score /\ e.id < Len(chunks)

\* The result loop (retriever.py:95-101) from raw slot i on.
RECURSIVE SearchLoop(_, _, _, _)
SearchLoop(raw, i, min_score, chunks) ==
    IF i > Len(raw) THEN <<>>
    ELSE IF Keeps(raw[i], min_score, chunks)
         THEN <<ScoredChunk(PyItem(chunks, raw[i].id), raw[i].score, i)>>
              \o SearchLoop(raw, i + 1, min_score, chunks)
         ELSE SearchLoop(raw, i + 1, min_score, chunks)

\* An exception leaves the loop when a kept slot indexes an empty list.
SearchLoopRaises(raw, min_score, chunks) ==
    \E i \in 1..Len(raw) :
        Keeps(raw[i], min_score, chunks) /\ PyItemRaises(chunks, raw[i].id)

Ok(v)     == [kind |-> "return", value |-> v]
Raise(e)  == [kind |-> "raise", value |-> e]

\* A search without the dimension check of faiss: the index reads as many
\* numbers of the query as its own dimension and scores them.  Not what the
\* code does.
RetrieverSearchUnchecked(index, chunks, is_loaded, model, qv, k, min_score) ==
    IF ~is_loaded THEN Raise("ValueError")
    ELSE IF model = None THEN Raise("AttributeError")
    ELSE LET q == NormalizeL2(qv)
             read == [i \in 1..index.d |-> IF i <= Len(q) THEN q[i] ELSE 0]
         IN  Ok(SearchLoop(IndexSearch(index, read, k), 1, min_score, chunks))

\* MedicalRetriever.search(query, k, min_score) on a retriever whose fields
\* are index, chunks, is_loaded, model; qv is model.encode([query]), and
\* without a model the call of encode on None raises.
RetrieverSearch(index, chunks, is_loaded, model, qv, k, min_score) ==
    IF ~is_loaded THEN Raise("ValueError")
    ELSE IF model = None THEN Raise("AttributeError")
    ELSE IF IndexSearchRaises(index, NormalizeL2(qv), k) THEN Raise("AssertionError")
    ELSE LET raw == IndexSearch(index, NormalizeL2(qv), k) IN
         IF SearchLoopRaises(raw, min_score, chunks) THEN Raise("IndexError")
         ELSE Ok(SearchLoop(raw, 1, min_score, chunks))

\* chunk = self.chunks_data[idx].copy(); chunk['similarity_score'] = ...
\* (embed_index.py:181-182)
SimilarChunk(chunk, score) ==
    [chunk_id |-> chunk.chunk_id, source |-> chunk.source, text |-> chunk.text,
     chunk_index |-> chunk.chunk_index, similarity_score |-> score]

RECURSIVE SimilarLoop(_, _, _)
SimilarLoop(raw, i, chunks) ==
    IF i > Len(raw) THEN <<>>
    ELSE IF raw[i].id < Len(chunks)
         THEN <<SimilarChunk(PyItem(chunks, raw[i].id), raw[i].score)>>
              \o SimilarLoop(raw, i + 1, chunks)
         ELSE SimilarLoop(raw, i + 1, chunks)

SimilarLoopRaises(raw, chunks) ==
    \E i \in 1..Len(raw) :
        raw[i].id < Len(chunks) /\ PyItemRaises(chunks, raw[i].id)

\* EmbeddingIndexer.search_similar(query, k); text is the query's terms.
SearchSimilar(index, chunks, vectorizer, text, k) ==
    IF index = None \/ vectorizer = None THEN Raise("ValueError")
    ELSE IF ~vectorizer.fitted THEN Raise("NotFittedError")
    ELSE LET qv == NormalizeL2(Transform(vectorizer.vocabulary, text)) IN
         IF IndexSearchRaises(index, qv, k) THEN Raise("AssertionError")
         ELSE LET raw == IndexSearch(index, qv, k) IN
              IF SimilarLoopRaises(raw, chunks) THEN Raise("IndexError")
              ELSE Ok(SimilarLoop(raw, 1, chunks))

-----------------------------------------------------------------------------
(* The artifact directory and embed_index.main                              *)

\* The vectorizer of a fresh EmbeddingIndexer: a TfidfVectorizer not yet fitted.
Unfitted == [fitted |-> FALSE]

Fitted(vocab) == [fitted |-> TRUE, vocabulary |-> vocab]

EmptyDir ==
    [index |-> Missing, chunks |-> Missing, embeddings |-> Missing,
     vectorizer |-> Missing, info |-> Missing]

\* model_info as save_index writes it (embed_index.py:112-117).
ModelInfo(chunks, embeddings) ==
    [model_name |-> "tfidf", embedding_dimension |-> Len(embeddings[1]),
     num_chunks |-> Len(chunks), index_type |-> "FAISS_IndexFlatIP"]

\* A model_info.json that was not written by save_index and carries the key
\* MedicalRetriever.load_index reads (retriever.py:61).
ForeignInfo(chunks) ==
    [model_name |-> "tfidf", dimension |-> Len(FitVocabulary(chunks)),
     num_chunks |-> Len(chunks)]

\* The rows create_faiss_index normalised in place are the rows save_index
\* writes to embeddings.npy.
SavedEmbeddings(chunks) == NormalizedRows(CreateEmbeddings(chunks))

\* The directory after a save_index that ran to its end.
SavedDir(chunks) ==
    [index |-> File(BuiltIndex(chunks)), chunks |-> File(chunks),
     embeddings |-> File(SavedEmbeddings(chunks)),
     vectorizer |-> File(Fitted(FitVocabulary(chunks))),
     info |-> File(ModelInfo(chunks, SavedEmbeddings(chunks)))]

\* A directory some other tool filled from a chunk list.
ForeignDir(chunks) == [SavedDir(chunks) EXCEPT !.info = File(ForeignInfo(chunks))]

Buildable == {c \in Corpora : ~FitRaises(c)}

\* Runs of embed_index.main in one behaviour.
MaxBuilds == 1

BuilderIdle == b_pc.at \in {"new", "done", "failed"}

\* main, embed_index.py:191-192: load the processed chunks.
MainLoadChunks(X) ==
    /\ BuilderIdle
    /\ b_pc.runs < MaxBuilds
    /\ b_pc' = [at |-> "create_embeddings", runs |-> b_pc.runs + 1]
    /\ b_chunks' = X
    /\ UNCHANGED appVars
    /\ UNCHANGED <<disk, retrieverVars, r_pc, indexerVars, e_pc, e_local, out, th>>

\* A create_embeddings that returns whatever it is given: not what the code
\* does.
MainCreateEmbeddingsAlways ==
    /\ b_pc.at = "create_embeddings"
    /\ b_pc' = [b_pc EXCEPT !.at = "create_faiss_index"]
    /\ UNCHANGED appVars
    /\ UNCHANGED <<disk, b_chunks, retrieverVars, r_pc, indexerVars, e_pc,
                   e_local, out, th>>

\* create_embeddings (embed_index.py:39-59), ValueError on an empty vocabulary.
MainCreateEmbeddings ==
    /\ b_pc.at = "create_embeddings"
    /\ b_pc' = [b_pc EXCEPT !.at = IF FitRaises(b_chunks) THEN "failed"
                                   ELSE "create_faiss_index"]
    /\ UNCHANGED appVars
    /\ UNCHANGED <<disk, b_chunks, retrieverVars, r_pc, indexerVars, e_pc,
                   e_local, out, th>>

\* create_faiss_index (embed_index.py:61-82).
MainCreateFaissIndex ==
    /\ b_pc.at = "create_faiss_index"
    /\ b_pc' = [b_pc EXCEPT !.at = "write_index"]
    /\ UNCHANGED appVars
    /\ UNCHANGED <<disk, b_chunks, retrieverVars, r_pc, indexerVars, e_pc,
                   e_local, out, th>>

\* The writes of save_index in the order of the code (embed_index.py:98-120).
SaveOrder ==
    <<"write_index", "write_chunks", "write_embeddings", "write_vectorizer",
      "write_info", "done">>

FileOf(step) ==
    CASE step = "write_index"      -> "index"
      [] step = "write_chunks"     -> "chunks"
      [] step = "write_embeddings" -> "embeddings"
      [] step = "write_vectorizer" -> "vectorizer"
      [] step = "write_info"       -> "info"

NextSaveStep(step) ==
    SaveOrder[1 + CHOOSE i \in 1..Len(SaveOrder) : SaveOrder[i] = step]

\* save_index writes each file in place, under its final name.
SaveWrite(d, step, chunks) ==
    [d EXCEPT ![FileOf(step)] = SavedDir(chunks)[FileOf(step)]]

Saving == b_pc.at \in {"write_index", "write_chunks", "write_embeddings",
                       "write_vectorizer", "write_info"}

\* One write of save_index runs to its end.
SaveStep ==
    /\ Saving
    /\ disk' = SaveWrite(disk, b_pc.at, b_chunks)
    /\ b_pc' = [b_pc EXCEPT !.at = NextSaveStep(b_pc.at)]
    /\ UNCHANGED appVars
    /\ UNCHANGED <<b_chunks, retrieverVars, r_pc, indexerVars, e_pc, e_local,
                   out, th>>

\* One write of save_index raises (disk full, permission, interrupt): the
\* file it had opened for writing is left truncated and main ends there.
SaveFails ==
    /\ Saving
    /\ disk' = [disk EXCEPT ![FileOf(b_pc.at)] = Partial]
    /\ b_pc' = [b_pc EXCEPT !.at = "failed"]
    /\ UNCHANGED appVars
    /\ UNCHANGED <<b_chunks, retrieverVars, r_pc, indexerVars, e_pc, e_local,
                   out, th>>

\* main is stopped between two writes of save_index (killed, interrupted, or
\* the next open() is refused): the files not yet written stay as they were.
SaveInterrupted ==
    /\ Saving
    /\ b_pc' = [b_pc EXCEPT !.at = "failed"]
    /\ UNCHANGED appVars
    /\ UNCHANGED <<disk, b_chunks, retrieverVars, r_pc, indexerVars, e_pc,
                   e_local, out, th>>

Builder ==
    \/ \E X \in Corpora : MainLoadChunks(X)
    \/ MainCreateEmbeddings
    \/ MainCreateFaissIndex
    \/ SaveStep
    \/ SaveFails
    \/ SaveInterrupted

-----------------------------------------------------------------------------
(* MedicalRetriever.load_index (retriever.py:38-70), one statement a step   *)

NoCall == [op |-> "none"]

LoadReturned(res) == [op |-> "load_index", res |-> res]

\* json.load(f)['dimension'] (retriever.py:59-61): KeyError without the key.
InfoHasDimension(f) == Readable(f) /\ "dimension" \in DOMAIN f.data

\* retriever.py:52  self.index = faiss.read_index(index_path)
RLoadIndex ==
    /\ r_pc = "idle"
    /\ IF Readable(disk.index)
       THEN /\ r_index' = disk.index.data
            /\ r_pc' = "read_chunks"
            /\ out' = NoCall
       ELSE /\ out' = LoadReturned(FALSE)
            /\ UNCHANGED <<r_index, r_pc>>
    /\ UNCHANGED appVars
    /\ UNCHANGED <<disk, builderVars, r_chunks, r_dimension, r_is_loaded,
                   r_model, indexerVars, e_pc, e_local, th>>

\* retriever.py:55-56  self.chunks_data = json.load(f)
RLoadChunks ==
    /\ r_pc = "read_chunks"
    /\ IF Readable(disk.chunks)
       THEN /\ r_chunks' = disk.chunks.data
            /\ r_pc' = "read_info"
            /\ out' = NoCall
       ELSE /\ out' = LoadReturned(FALSE)
            /\ r_pc' = "idle"
            /\ UNCHANGED r_chunks
    /\ UNCHANGED appVars
    /\ UNCHANGED <<disk, builderVars, r_index, r_dimension, r_is_loaded,
                   r_model, indexerVars, e_pc, e_local, th>>

\* retriever.py:59-61  self.dimension = model_info['dimension']
RLoadInfo ==
    /\ r_pc = "read_info"
    /\ IF InfoHasDimension(disk.info)
       THEN /\ r_dimension' = disk.info.data.dimension
            /\ r_pc' = "set_loaded"
            /\ out' = NoCall
       ELSE /\ out' = LoadReturned(FALSE)
            /\ r_pc' = "idle"
            /\ UNCHANGED r_dimension
    /\ UNCHANGED appVars
    /\ UNCHANGED <<disk, builderVars, r_index, r_chunks, r_is_loaded,
                   r_model, indexerVars, e_pc, e_local, th>>

\* retriever.py:63-66  self.is_loaded = True; return True
RLoadDone ==
    /\ r_pc = "set_loaded"
    /\ r_is_loaded' = TRUE
    /\ r_pc' = "idle"
    /\ out' = LoadReturned(TRUE)
    /\ UNCHANGED appVars
    /\ UNCHANGED <<disk, builderVars, r_index, r_chunks, r_dimension,
                   r_model, indexerVars, e_pc, e_local, th>>

RetrieverLoad == RLoadIndex \/ RLoadChunks \/ RLoadInfo \/ RLoadDone

(* MedicalRetriever.search on the same object from another thread: the is_loaded
   guard and the read of self.index (retriever.py:84-92), then the read of
   self.chunks_data in the result loop (retriever.py:96-101). *)

Idle == [at |-> "idle"]

SearchStart ==
    /\ th = Idle
    /\ IF r_is_loaded
       THEN /\ th' = [at |-> "loop", index |-> r_index]
            /\ out' = NoCall
       ELSE /\ out' = [op |-> "search", res |-> Raise("ValueError")]
            /\ UNCHANGED th
    /\ UNCHANGED appVars
    /\ UNCHANGED <<disk, builderVars, retrieverVars, r_pc, indexerVars, e_pc,
                   e_local>>

SearchLoopReads ==
    /\ th # Idle
    /\ out' = [op |-> "search", res |-> Ok("results"), index |-> th.index,
               chunks |-> r_chunks]
    /\ th' = Idle
    /\ UNCHANGED appVars
    /\ UNCHANGED <<disk, builderVars, retrieverVars, r_pc, indexerVars, e_pc,
                   e_local>>

-----------------------------------------------------------------------------
(* SpecPersist: embed_index.main rebuilding the directory while one         *)
(* MedicalRetriever loads from it and is searched.                          *)

\* retriever.py:29-32: the model, when sentence_transformers can be imported.
SentenceModel == [name |-> "all-MiniLM-L6-v2"]

InitRetriever ==
    /\ r_model = SentenceModel
    /\ r_index = None
    /\ r_chunks = <<>>
    /\ r_dimension = None
    /\ r_is_loaded = FALSE
    /\ r_pc = "idle"

InitIndexer ==
    /\ e_index = None
    /\ e_chunks = <<>>
    /\ e_embeddings = None
    /\ e_vectorizer = Unfitted
    /\ e_pc = [at |-> "idle", calls |-> 0]
    /\ e_local = None

\* The directory holds nothing, or a whole artifact set from an earlier
\* build, whose summary info does or does not carry the key 'dimension'.
InitDisk ==
    disk \in {EmptyDir} \cup {SavedDir(X) : X \in Buildable}
                        \cup {ForeignDir(X) : X \in Buildable}

InitPersist ==
    /\ InitDisk
    /\ conversation_history = <<>>
    /\ model_name = "gemini-1.5-flash"
    /\ b_pc = [at |-> "new", runs |-> 0]
    /\ b_chunks = <<>>
    /\ InitRetriever
    /\ InitIndexer
    /\ out = NoCall
    /\ th = Idle

NextPersist == Builder \/ RetrieverLoad \/ SearchStart \/ SearchLoopReads

SpecPersist == InitPersist /\ [][NextPersist]_vars

-----------------------------------------------------------------------------
\* Calls of EmbeddingIndexer.load_index in one behaviour.
MaxLoads == 1

(* EmbeddingIndexer.load_index (embed_index.py:124-154), one statement a    *)
(* step: four reads into local variables, then the four field assignments.  *)
(* A read that fails raises out of the call and no field is assigned.       *)

ELoadRaised == [op |-> "indexer.load_index", res |-> Raise("OSError")]

ELoadRead(at, file, next) ==
    /\ e_pc.at = at
    /\ IF Readable(disk[file])
       THEN /\ e_local' = [e_local EXCEPT ![file] = disk[file].data]
            /\ e_pc' = [e_pc EXCEPT !.at = next]
            /\ out' = NoCall
       ELSE /\ e_local' = None
            /\ e_pc' = [e_pc EXCEPT !.at = "idle"]
            /\ out' = ELoadRaised
    /\ UNCHANGED appVars
    /\ UNCHANGED <<disk, builderVars, retrieverVars, r_pc, indexerVars, th>>

\* embed_index.py:135  index = faiss.read_index(...)
ELoadIndex ==
    /\ e_pc.at = "idle"
    /\ e_pc.calls < MaxLoads
    /\ IF Readable(disk.index)
       THEN /\ e_local' = [index |-> disk.index.data, chunks |-> None,
                           embeddings |-> None, vectorizer |-> None]
            /\ e_pc' = [at |-> "read_chunks", calls |-> e_pc.calls + 1]
            /\ out' = NoCall
       ELSE /\ out' = ELoadRaised
            /\ e_pc' = [e_pc EXCEPT !.calls = e_pc.calls + 1]
            /\ UNCHANGED e_local
    /\ UNCHANGED appVars
    /\ UNCHANGED <<disk, builderVars, retrieverVars, r_pc, indexerVars, th>>

\* embed_index.py:138-139, 142, 145-146
ELoadChunks     == ELoadRead("read_chunks", "chunks", "read_embeddings")
ELoadEmbeddings == ELoadRead("read_embeddings", "embeddings", "read_vectorizer")
ELoadVectorizer == ELoadRead("read_vectorizer", "vectorizer", "assign")

\* embed_index.py:148-154  the assignments and the return
ELoadAssign ==
    /\ e_pc.at = "assign"
    /\ e_vectorizer' = e_local.vectorizer
    /\ e_embeddings' = e_local.embeddings
    /\ e_index' = e_local.index
    /\ e_chunks' = e_local.chunks
    /\ e_pc' = [e_pc EXCEPT !.at = "idle"]
    /\ e_local' = None
    /\ out' = [op |-> "indexer.load_index", res |-> Ok("loaded")]
    /\ UNCHANGED appVars
    /\ UNCHANGED <<disk, builderVars, retrieverVars, r_pc, th>>

IndexerLoad ==
    ELoadIndex \/ ELoadChunks \/ ELoadEmbeddings \/ ELoadVectorizer \/ ELoadAssign

\* The texts a query can hold.
QueryTexts == SUBSET Terms

\* search_similar(query, k) as one call (embed_index.py:156-185).
CallSearchSimilar(text, k) ==
    /\ e_pc.at = "idle"
    /\ out' = [op |-> "search_similar", k |-> k, text |-> text,
               res |-> SearchSimilar(e_index, e_chunks, e_vectorizer, text, k)]
    /\ UNCHANGED appVars
    /\ UNCHANGED <<disk, builderVars, retrieverVars, r_pc, indexerVars, e_pc,
                   e_local, th>>

-----------------------------------------------------------------------------
(* SpecIndexer: embed_index.main rebuilding the directory while one         *)
(* EmbeddingIndexer loads from it and answers search_similar.               *)

InitIndexerSpec ==
    /\ disk \in {EmptyDir} \cup {SavedDir(X) : X \in Buildable}
    /\ conversation_history = <<>>
    /\ model_name = "gemini-1.5-flash"
    /\ b_pc = [at |-> "new", runs |-> 0]
    /\ b_chunks = <<>>
    /\ InitRetriever
    /\ InitIndexer
    /\ out = NoCall
    /\ th = Idle

NextIndexer ==
    \/ Builder
    \/ IndexerLoad

SpecIndexer == InitIndexerSpec /\ [][NextIndexer]_vars

-----------------------------------------------------------------------------
(* SpecSearch: whole calls of MedicalRetriever.load_index and search.  The   *)
(* directory a load reads is an input of the call.                          *)

FileNames == {"index", "chunks", "embeddings", "vectorizer", "info"}

\* The directory with its chunk metadata taken from another build.
WithChunksOf(d, Y) == [d EXCEPT !.chunks = File(Y)]

\* The directory with one artifact absent or unreadable.
Damaged(d) == {[d EXCEPT ![f] = how] : f \in FileNames, how \in {Missing, Partial}}

\* Directories handed to MedicalRetriever.load_index: what save_index
\* leaves, and what another tool leaves, whole, mixed or damaged.
RetrieverDirs ==
    {SavedDir(X) : X \in Buildable}
    \cup {WithChunksOf(ForeignDir(X), Y) : X \in Buildable, Y \in Buildable}
    \cup UNION {Damaged(ForeignDir(X)) : X \in Buildable}

\* Directories handed to EmbeddingIndexer.load_index.
IndexerDirs ==
    {WithChunksOf(SavedDir(X), Y) : X \in Buildable, Y \in Buildable}
    \cup UNION {Damaged(SavedDir(X)) : X \in Buildable}

\* MedicalRetriever.load_index as one call: the fields after it and what it
\* returns.  Each field is assigned as soon as its file is read; an
\* exception leaves the fields assigned so far and returns False.
LoadIndex(index, chunks, dimension, is_loaded, d) ==
    LET old == [index |-> index, chunks |-> chunks, dimension |-> dimension,
                is_loaded |-> is_loaded, ret |-> FALSE]
    IN  IF ~Readable(d.index) THEN old
        ELSE IF ~Readable(d.chunks) THEN [old EXCEPT !.index = d.index.data]
        ELSE IF ~InfoHasDimension(d.info)
             THEN [old EXCEPT !.index = d.index.data, !.chunks = d.chunks.data]
        ELSE [index |-> d.index.data, chunks |-> d.chunks.data,
              dimension |-> d.info.data.dimension, is_loaded |-> TRUE,
              ret |-> TRUE]

CallLoadIndex(d) ==
    LET after == LoadIndex(r_index, r_chunks, r_dimension, r_is_loaded, d) IN
    /\ r_index' = after.index
    /\ r_chunks' = after.chunks
    /\ r_dimension' = after.dimension
    /\ r_is_loaded' = after.is_loaded
    /\ out' = [op |-> "load_index", dir |-> d, res |-> after.ret]
    /\ UNCHANGED appVars
    /\ UNCHANGED <<disk, builderVars, r_model, r_pc, indexerVars, e_pc, e_local, th>>

\* What model.encode can give for a query: a non-zero vector of the model's
\* dimension.
QueryVecs ==
    {qv \in [1..ModelDim -> {0 - Scale, 0, Scale}] : \E i \in 1..ModelDim : qv[i] # 0}

\* Thresholds passed as min_score.
MinScores == {0 - Scale, 0, 80}

CallSearch(qv, k, min_score) ==
    /\ out' = [op |-> "search", qv |-> qv, k |-> k, min_score |-> min_score,
               res |-> RetrieverSearch(r_index, r_chunks, r_is_loaded, r_model,
                                       qv, k, min_score)]
    /\ UNCHANGED appVars
    /\ UNCHANGED <<disk, builderVars, retrieverVars, r_pc, indexerVars, e_pc,
                   e_local, th>>

InitSearch ==
    /\ disk = EmptyDir
    /\ conversation_history = <<>>
    /\ model_name = "gemini-1.5-flash"
    /\ b_pc = [at |-> "new", runs |-> 0]
    /\ b_chunks = <<>>
    /\ r_model \in {SentenceModel, None}
    /\ r_index = None
    /\ r_chunks = <<>>
    /\ r_dimension = None
    /\ r_is_loaded = FALSE
    /\ r_pc = "idle"
    /\ InitIndexer
    /\ out = NoCall
    /\ th = Idle

NextSearch ==
    \/ \E d \in RetrieverDirs : CallLoadIndex(d)
    \/ \E qv \in QueryVecs, k \in 1..MaxK, ms \in MinScores : CallSearch(qv, k, ms)

SpecSearch == InitSearch /\ [][NextSearch]_vars

-----------------------------------------------------------------------------
(* SpecSimilar: whole calls on one EmbeddingIndexer.                        *)

\* EmbeddingIndexer.load_index as one call.
CallIndexerLoad(d) ==
    /\ e_pc.at = "idle"
    /\ IF \A f \in {"index", "chunks", "embeddings", "vectorizer"} : Readable(d[f])
       THEN /\ e_vectorizer' = d.vectorizer.data
            /\ e_embeddings' = d.embeddings.data
            /\ e_index' = d.index.data
            /\ e_chunks' = d.chunks.data
            /\ out' = [op |-> "indexer.load_index", dir |-> d, res |-> Ok("loaded")]
       ELSE /\ out' = [op |-> "indexer.load_index", dir |-> d,
                       res |-> Raise("OSError")]
            /\ UNCHANGED indexerVars
    /\ UNCHANGED appVars
    /\ UNCHANGED <<disk, builderVars, retrieverVars, r_pc, e_pc, e_local, th>>

\* create_embeddings on the same object refits its vectorizer
\* (embed_index.py:55); the fit raises on an empty vocabulary.
CallCreateEmbeddings(X) ==
    /\ e_pc.at = "idle"
    /\ IF FitRaises(X)
       THEN /\ out' = [op |-> "create_embeddings", res |-> Raise("ValueError")]
            /\ UNCHANGED e_vectorizer
       ELSE /\ out' = [op |-> "create_embeddings", res |-> Ok(CreateEmbeddings(X))]
            /\ e_vectorizer' = Fitted(FitVocabulary(X))
    /\ UNCHANGED appVars
    /\ UNCHANGED <<disk, builderVars, retrieverVars, r_pc, e_index, e_chunks,
                   e_embeddings, e_pc, e_local, th>>

InitSimilar ==
    /\ disk = EmptyDir
    /\ conversation_history = <<>>
    /\ model_name = "gemini-1.5-flash"
    /\ b_pc = [at |-> "new", runs |-> 0]
    /\ b_chunks = <<>>
    /\ InitRetriever
    /\ InitIndexer
    /\ out = NoCall
    /\ th = Idle

NextSimilar ==
    \/ \E d \in IndexerDirs : CallIndexerLoad(d)
    \/ \E X \in Corpora : CallCreateEmbeddings(X)
    \/ \E text \in QueryTexts, k \in 1..MaxK : CallSearchSimilar(text, k)

SpecSimilar == InitSimilar /\ [][NextSimilar]_vars

-----------------------------------------------------------------------------
(* The lookups and validate_query of MedicalRetriever.  A string is the      *)
(* sequence of its characters.                                              *)

\* str.lower() on the characters that occur in the queries.
LowerChar(c) ==
    CASE c = "F" -> "f"
      [] c = "W" -> "w"
      [] c = "B" -> "b"
      [] c = "H" -> "h"
      [] OTHER -> c

StrLower(s) == [i \in 1..Len(s) |-> LowerChar(s[i])]

\* Python's `p in s` on strings: p occurs in s as a substring.
StrContains(s, p) ==
    \E off \in 0..(Len(s) - Len(p)) : \A j \in 1..Len(p) : s[off + j] = p[j]

\* retriever.py:182-186
medical_keywords ==
    { <<"h", "e", "a", "l", "t", "h">>,
      <<"m", "e", "d", "i", "c", "a", "l">>,
      <<"d", "i", "s", "e", "a", "s", "e">>,
      <<"s", "y", "m", "p", "t", "o", "m">>,
      <<"t", "r", "e", "a", "t", "m", "e", "n", "t">>,
      <<"m", "e", "d", "i", "c", "i", "n", "e">>,
      <<"v", "i", "t", "a", "m", "i", "n">>,
      <<"n", "u", "t", "r", "i", "t", "i", "o", "n">>,
      <<"e", "x", "e", "r", "c", "i", "s", "e">>,
      <<"p", "r", "e", "v", "e", "n", "t", "i", "o", "n">>,
      <<"f", "i", "r", "s", "t", " ", "a", "i", "d">>,
      <<"f", "e", "v", "e", "r">>,
      <<"p", "a", "i", "n">>,
      <<"i", "n", "j", "u", "r", "y">>,
      <<"b", "u", "r", "n">>,
      <<"d", "e", "h", "y", "d", "r", "a", "t", "i", "o", "n">>,
      <<"s", "t", "r", "e", "s", "s">> }

\* retriever.py:194-197
inappropriate_patterns ==
    { <<"d", "i", "a", "g", "n", "o", "s", "e">>,
      <<"p", "r", "e", "s", "c", "r", "i", "p", "t", "i", "o", "n">>,
      <<"m", "e", "d", "i", "c", "i", "n", "e", " ", "f", "o", "r">>,
      <<"w", "h", "a", "t", " ", "m", "e", "d", "i", "c", "i", "n", "e">>,
      <<"d", "o", "c", "t", "o", "r">>,
      <<"c", "l", "i", "n", "i", "c">>,
      <<"h", "o", "s", "p", "i", "t", "a", "l">>,
      <<"e", "m", "e", "r", "g", "e", "n", "c", "y">> }

\* validate_query (retriever.py:171-206)
ValidateQuery(query) ==
    LET query_lower == StrLower(query)
        has_medical_keywords ==
            \E keyword \in medical_keywords : StrContains(query_lower, keyword)
        has_inappropriate ==
            \E pattern \in inappropriate_patterns : StrContains(query_lower, pattern)
    IN  [is_valid |-> has_medical_keywords /\ ~has_inappropriate,
         has_medical_keywords |-> has_medical_keywords,
         has_inappropriate |-> has_inappropriate,
         suggested_action |-> IF has_medical_keywords /\ ~has_inappropriate
                              THEN "proceed" ELSE "refuse"]

\* get_chunk_by_id (retriever.py:105-118): the first chunk with that id, the
\* stored record itself, or None.
GetChunkById(chunks, chunk_id) ==
    IF \E i \in 1..Len(chunks) : chunks[i].chunk_id = chunk_id
    THEN chunks[CHOOSE i \in 1..Len(chunks) :
                    /\ chunks[i].chunk_id = chunk_id
                    /\ \A j \in 1..(i - 1) : chunks[j].chunk_id # chunk_id]
    ELSE None

\* get_chunks_by_source (retriever.py:120-130): the chunks of that source in
\* list order.
GetChunksBySource(chunks, source) ==
    SelectSeq(chunks, LAMBDA chunk : chunk.source = source)

-----------------------------------------------------------------------------
(* SpecServe: threads calling search, get_chunk_by_id, get_chunks_by_source  *)
(* and validate_query on one loaded MedicalRetriever.  Each action is one    *)
(* statement or one loop iteration of one thread's call.                    *)

Threads == {"t1", "t2"}

\* chunk = self.chunks_data[idx].copy() (retriever.py:98): the two
\* assignments that follow write the copy, so the stored list is as before.
StoredAfterHitInPlace(chunks, idx, scored) ==
    [chunks EXCEPT ![IF idx >= 0 THEN idx + 1 ELSE Len(chunks) + idx + 1] = scored]

StoredAfterHit(chunks, idx, scored) == chunks

Begin(t, call) ==
    /\ th[t].at = "idle"
    /\ th' = [th EXCEPT ![t] = call]
    /\ UNCHANGED appVars
    /\ UNCHANGED <<disk, builderVars, retrieverVars, r_pc, indexerVars, e_pc,
                   e_local, out>>

Finish(t, res) == th' = [th EXCEPT ![t] = [@ EXCEPT !.at = "done", !.res = res]]

serveFrame == <<disk, builderVars, r_index, r_dimension, r_is_loaded, r_model,
                r_pc, indexerVars, e_pc, e_local, out>>

BeginSearch(t, qv, k, min_score) ==
    Begin(t, [i |-> 0, k |-> k, qv |-> qv, min_score |-> min_score,
              raw |-> <<>>, at |-> "guard", op |-> "search", res |-> None,
              query_embedding |-> <<>>, results |-> <<>>])

\* retriever.py:84-85
SearchGuard(t) ==
    /\ th[t].at = "guard"
    /\ IF r_is_loaded
       THEN th' = [th EXCEPT ![t].at = "encode"]
       ELSE Finish(t, Raise("ValueError"))
    /\ UNCHANGED appVars
    /\ UNCHANGED <<serveFrame, r_chunks>>

\* retriever.py:88-89
SearchEncode(t) ==
    /\ th[t].at = "encode"
    /\ IF r_model = None
       THEN Finish(t, Raise("AttributeError"))
       ELSE th' = [th EXCEPT ![t].at = "index_search",
                             ![t].query_embedding = NormalizeL2(th[t].qv)]
    /\ UNCHANGED appVars
    /\ UNCHANGED <<serveFrame, r_chunks>>

\* retriever.py:92
SearchIndex(t) ==
    /\ th[t].at = "index_search"
    /\ IF IndexSearchRaises(r_index, th[t].query_embedding, th[t].k)
       THEN Finish(t, Raise("AssertionError"))
       ELSE th' = [th EXCEPT ![t].at = "loop", ![t].i = 1,
                             ![t].raw = IndexSearch(r_index, th[t].query_embedding,
                                                    th[t].k)]
    /\ UNCHANGED appVars
    /\ UNCHANGED <<serveFrame, r_chunks>>

\* retriever.py:96-101, one iteration
SearchLoopStep(t) ==
    /\ th[t].at = "loop"
    /\ th[t].i <= Len(th[t].raw)
    /\ LET c == th[t]
           e == c.raw[c.i]
       IN  IF ~Keeps(e, c.min_score, r_chunks)
           THEN /\ th' = [th EXCEPT ![t].i = c.i + 1]
                /\ UNCHANGED r_chunks
           ELSE IF PyItemRaises(r_chunks, e.id)
           THEN /\ Finish(t, Raise("IndexError"))
                /\ UNCHANGED r_chunks
           ELSE LET scored == ScoredChunk(PyItem(r_chunks, e.id), e.score, c.i)
                IN  /\ th' = [th EXCEPT ![t].i = c.i + 1,
                                        ![t].results = Append(c.results, scored)]
                    /\ r_chunks' = StoredAfterHit(r_chunks, e.id, scored)
    /\ UNCHANGED appVars
    /\ UNCHANGED serveFrame

\* retriever.py:103
SearchReturn(t) ==
    /\ th[t].at = "loop"
    /\ th[t].i > Len(th[t].raw)
    /\ Finish(t, Ok(th[t].results))
    /\ UNCHANGED appVars
    /\ UNCHANGED <<serveFrame, r_chunks>>

BeginGetChunkById(t, chunk_id) ==
    Begin(t, [at |-> "scan", op |-> "get_chunk_by_id", chunk_id |-> chunk_id,
              i |-> 1, res |-> None])

\* retriever.py:115-118, one iteration or the return after the loop
GetChunkByIdStep(t) ==
    /\ th[t].at = "scan"
    /\ IF th[t].i > Len(r_chunks) THEN Finish(t, Ok(None))
       ELSE IF r_chunks[th[t].i].chunk_id = th[t].chunk_id
            THEN Finish(t, Ok(r_chunks[th[t].i]))
            ELSE th' = [th EXCEPT ![t].i = @ + 1]
    /\ UNCHANGED appVars
    /\ UNCHANGED <<serveFrame, r_chunks>>

BeginGetChunksBySource(t, source) ==
    Begin(t, [at |-> "filter", op |-> "get_chunks_by_source", source |-> source,
              i |-> 1, results |-> <<>>, res |-> None])

\* retriever.py:130, one iteration of the comprehension or its end
GetChunksBySourceStep(t) ==
    /\ th[t].at = "filter"
    /\ IF th[t].i > Len(r_chunks) THEN Finish(t, Ok(th[t].results))
       ELSE th' = [th EXCEPT ![t].i = @ + 1,
                             ![t].results =
                                 IF r_chunks[th[t].i].source = th[t].source
                                 THEN Append(@, r_chunks[th[t].i]) ELSE @]
    /\ UNCHANGED appVars
    /\ UNCHANGED <<serveFrame, r_chunks>>

\* validate_query reads only its argument (retriever.py:171-206).
CallValidateQuery(t, query) ==
    /\ th[t].at = "idle"
    /\ th' = [th EXCEPT ![t] = [at |-> "done", op |-> "validate_query",
                                query |-> query, res |-> Ok(ValidateQuery(query))]]
    /\ UNCHANGED appVars
    /\ UNCHANGED <<serveFrame, r_chunks>>

\* The caller takes the result; the thread is free for its next call.
TakeResult(t) ==
    /\ th[t].at = "done"
    /\ th' = [th EXCEPT ![t] = Idle]
    /\ UNCHANGED appVars
    /\ UNCHANGED <<serveFrame, r_chunks>>

\* Inputs of the concurrent calls.
ServeQueryVecs == {<<Scale, 0>>, <<0 - Scale, Scale>>}
ServeMinScores == {0, 80}
ServeChunkIds  == {<<"doc", i>> : i \in 0..MaxChunks}
ServeSources   == {"doc", "other"}
ServeQueries ==
    { <<"F", "e", "v", "e", "r">>,
      <<"w", "h", "a", "t", " ", "m", "e", "d", "i", "c", "i", "n", "e">>,
      <<"b", "u", "r", "n", " ", "d", "o", "c", "t", "o", "r">>,
      <<"h", "i">> }

\* Directories from which a fresh retriever's load_index returns True: whole
\* ones, and ones whose chunk list is shorter than the index.
ServeDirs ==
    {ForeignDir(X) : X \in Buildable}
    \cup UNION {{WithChunksOf(ForeignDir(X), Y) :
                     Y \in {Z \in Buildable : Len(Z) < Len(X)}} : X \in Buildable}

\* The retriever has been constructed and load_index(d) has returned True.
InitServe ==
    \E d \in ServeDirs :
        LET after == LoadIndex(None, <<>>, None, FALSE, d) IN
        /\ disk = d
        /\ conversation_history = <<>>
        /\ model_name = "gemini-1.5-flash"
        /\ b_pc = [at |-> "new", runs |-> 0]
        /\ b_chunks = <<>>
        /\ r_model = SentenceModel
        /\ r_index = after.index
        /\ r_chunks = after.chunks
        /\ r_dimension = after.dimension
        /\ r_is_loaded = after.is_loaded
        /\ r_pc = "idle"
        /\ InitIndexer
        /\ out = [op |-> "load_index", dir |-> d, res |-> after.ret]
        /\ th = [t \in Threads |-> Idle]

NextServe ==
    \E t \in Threads :
        \/ \E qv \in ServeQueryVecs, k \in 1..MaxK, ms \in ServeMinScores :
               BeginSearch(t, qv, k, ms)
        \/ SearchGuard(t)
        \/ SearchEncode(t)
        \/ SearchIndex(t)
        \/ SearchLoopStep(t)
        \/ SearchReturn(t)
        \/ \E id \in ServeChunkIds : BeginGetChunkById(t, id)
        \/ GetChunkByIdStep(t)
        \/ \E s \in ServeSources : BeginGetChunksBySource(t, s)
        \/ GetChunksBySourceStep(t)
        \/ \E q \in ServeQueries : CallValidateQuery(t, q)
        \/ TakeResult(t)

SpecServe == InitServe /\ [][NextServe]_vars

-----------------------------------------------------------------------------
(* Claims about the persisted artifacts                                     *)

\* search_similar's guard (embed_index.py:167) lets the call through.
IndexerUsable == e_index # None /\ e_vectorizer # None

\* Position i of the index holds the vector built from chunk i of the list.
AlignedWith(index, chunks) ==
    /\ NTotal(index) = Len(chunks)
    /\ \A i \in 1..Len(chunks) :
         index.vecs[i] =
            NormalizeL2(Transform(FitVocabulary(chunks), chunks[i].text))

\* C1: between calls, whenever the retriever is loaded or the indexer passes
\* its search guard, its index has as many vectors as its chunk list has
\* chunks and position i holds the vector built from chunk i.
C1_IndexAlignedWithChunks ==
    /\ (r_pc = "idle" /\ r_is_loaded) => AlignedWith(r_index, r_chunks)
    /\ (e_pc.at = "idle" /\ IndexerUsable) => AlignedWith(e_index, e_chunks)

\* The fields of a consumer all come from the artifact set of one build.
IndexerHoldsOneBuild ==
    \E X \in Buildable :
        /\ e_index = SavedDir(X).index.data
        /\ e_chunks = SavedDir(X).chunks.data
        /\ e_embeddings = SavedDir(X).embeddings.data
        /\ e_vectorizer = SavedDir(X).vectorizer.data

RetrieverHoldsOneBuild ==
    \E X \in Buildable :
        /\ r_index = BuiltIndex(X)
        /\ r_chunks = X
        /\ r_dimension = Len(FitVocabulary(X))

\* C2: while save_index runs without failing, a load_index that returns
\* successfully has read artifacts that all come from one build.
C2_LoadReadsOneBuild ==
    b_pc.at # "failed" =>
        /\ out = [op |-> "indexer.load_index", res |-> Ok("loaded")]
              => IndexerHoldsOneBuild
        /\ out = LoadReturned(TRUE) => RetrieverHoldsOneBuild

\* An index and a chunk list that come from one build.
SameSnapshot(index, chunks) == chunks \in Buildable /\ index = BuiltIndex(chunks)

\* C3: no step takes a loaded retriever whose index and chunk list come from
\* one snapshot to a loaded retriever whose index and chunk list come from
\* two, neither a step inside a second load_index nor its failure.
C3_ReloadNeverMixesSnapshots ==
    [][(r_is_loaded /\ SameSnapshot(r_index, r_chunks))
          => (r_is_loaded' => SameSnapshot(r_index', r_chunks'))]_vars

-----------------------------------------------------------------------------
(* Claims about MedicalRetriever.load_index as a call                       *)

\* C4: load_index on the directory save_index wrote for a non-empty chunk
\* list returns True and leaves the retriever loaded.
C4_LoadOfSavedSucceeds ==
    (out.op = "load_index" /\ out.dir \in {SavedDir(X) : X \in Buildable})
        => (out.res = TRUE /\ r_is_loaded)

\* The four artifacts of a build: index, chunk metadata, encoder state,
\* summary info.
FourArtifacts == {"index", "chunks", "vectorizer", "info"}

Inconsistent(d) ==
    \/ \E f \in FourArtifacts : ~Readable(d[f])
    \/ /\ Readable(d.index)
       /\ Readable(d.chunks)
       /\ NTotal(d.index.data) # Len(d.chunks.data)

EverySearchFails ==
    \A qv \in QueryVecs, k \in 1..MaxK, ms \in MinScores :
        RetrieverSearch(r_index, r_chunks, r_is_loaded, r_model, qv, k, ms).kind
            = "raise"

\* C5: load_index on a directory with one of the four artifacts missing or
\* unreadable, or with a chunk count that differs from the vector count,
\* returns False, and every search on the retriever then raises.
C5_LoadOfBadDirFails ==
    (out.op = "load_index" /\ Inconsistent(out.dir))
        => (out.res = FALSE /\ EverySearchFails)

-----------------------------------------------------------------------------
(* Claims about concurrent read-only calls                                  *)

\* What a call gives when it runs alone on the retriever as it was loaded.
AloneResult(c) ==
    LET snap == LoadIndex(None, <<>>, None, FALSE, out.dir) IN
    CASE c.op = "search" ->
             RetrieverSearch(snap.index, snap.chunks, snap.is_loaded, r_model,
                             c.qv, c.k, c.min_score)
      [] c.op = "get_chunk_by_id" -> Ok(GetChunkById(snap.chunks, c.chunk_id))
      [] c.op = "get_chunks_by_source" ->
             Ok(GetChunksBySource(snap.chunks, c.source))
      [] c.op = "validate_query" -> Ok(ValidateQuery(c.query))

\* C6: under every interleaving of search, get_chunk_by_id,
\* get_chunks_by_source and validate_query on a loaded retriever, index,
\* chunks_data, dimension and is_loaded stay as load_index left them and
\* every finished call has the result it has when run alone.
C6_ConcurrentReadsIsolated ==
    LET snap == LoadIndex(None, <<>>, None, FALSE, out.dir) IN
    /\ r_index = snap.index
    /\ r_chunks = snap.chunks
    /\ r_dimension = snap.dimension
    /\ r_is_loaded = snap.is_loaded
    /\ \A t \in Threads : th[t].at = "done" => th[t].res = AloneResult(th[t])

\* Two calls overlap: one search has returned hits while the other thread is
\* inside a call of its own.
C6_Witness ==
    \E t \in Threads, u \in Threads :
        /\ t # u
        /\ th[t].at = "done"
        /\ th[t].op = "search"
        /\ th[t].res.kind = "return"
        /\ th[t].res.value # <<>>
        /\ th[u].at \notin {"idle", "done"}

-----------------------------------------------------------------------------
(* Claims about the result sequence                                         *)

Min(a, b) == IF a <= b THEN a ELSE b

\* C7: on an indexer whose index is aligned with its chunk list of n chunks,
\* search_similar(query, k) returns min(k, n) results and no chunk twice.
C7_ReturnsMinKN ==
    (out.op = "search_similar" /\ out.res.kind = "return"
        /\ AlignedWith(e_index, e_chunks))
    => LET v == out.res.value IN
       /\ Len(v) = Min(out.k, NTotal(e_index))
       /\ \A i \in 1..Len(v), j \in 1..Len(v) :
              i # j => v[i].chunk_id # v[j].chunk_id

\* C8: on an aligned snapshot the results of search are in descending score
\* order, and results of equal score are in ascending position order.
C8_DescendingTiesAscending ==
    (out.op = "search" /\ out.res.kind = "return"
        /\ AlignedWith(r_index, r_chunks))
    => LET v == out.res.value IN
       \A i \in 1..Len(v), j \in 1..Len(v) :
           i < j => \/ v[i].similarity_score > v[j].similarity_score
                    \/ /\ v[i].similarity_score = v[j].similarity_score
                       /\ v[i].chunk_index < v[j].chunk_index

\* A result without its rank.
Hit(r) == [chunk_id |-> r.chunk_id, similarity_score |-> r.similarity_score]

Hits(v) == [i \in 1..Len(v) |-> Hit(v[i])]

\* C9: for a threshold X >= 0, search(q, k, X) returns the results of
\* search(q, k, 0) whose score is at least X, in the same order, and their
\* ranks are 1, 2, ..., m.
C9_FilteredAndReranked ==
    (out.op = "search" /\ out.res.kind = "return" /\ out.min_score >= 0)
    => LET v == out.res.value
           base == RetrieverSearch(r_index, r_chunks, r_is_loaded, r_model,
                                   out.qv, out.k, 0).value
       IN  /\ Hits(v) = Hits(SelectSeq(base,
                              LAMBDA r : r.similarity_score >= out.min_score))
           /\ \A i \in 1..Len(v) : v[i].rank = i

IsPrefix(a, b) == Len(a) <= Len(b) /\ \A i \in 1..Len(a) : a[i] = b[i]

\* C10: on an aligned snapshot, for k1 <= k2 the results of search(q, k1)
\* are a prefix of the results of search(q, k2) with the same threshold.
C10_PrefixStableInK ==
    (out.op = "search" /\ out.res.kind = "return"
        /\ AlignedWith(r_index, r_chunks))
    => \A k1 \in 1..out.k :
           IsPrefix(RetrieverSearch(r_index, r_chunks, r_is_loaded, r_model,
                                    out.qv, k1, out.min_score).value,
                    out.res.value)

-----------------------------------------------------------------------------
(* SpecCopies: search and search_similar with Python's objects made          *)
(* explicit.  A dict a call holds is either a stored chunk itself (an       *)
(* assignment to it writes the stored list) or an object of its own.        *)

\* chunk = self.chunks_data[idx] without .copy(): the stored dict itself.
DictAlias(chunks, idx) ==
    [stored |-> TRUE,
     at |-> IF idx >= 0 THEN idx + 1 ELSE Len(chunks) + idx + 1,
     rec |-> PyItem(chunks, idx)]

\* chunk = self.chunks_data[idx].copy() (retriever.py:98, embed_index.py:181):
\* a new dict with the same items.
DictCopy(chunks, idx) == [stored |-> FALSE, at |-> 0, rec |-> PyItem(chunks, idx)]

\* d[key] = val on the dict object o: the object afterwards, and the stored
\* list afterwards.
SetItem(o, chunks, key, val) ==
    LET rec == (key :> val) @@ o.rec IN
    [obj |-> [o EXCEPT !.rec = rec],
     chunks |-> IF o.stored THEN [chunks EXCEPT ![o.at] = rec] ELSE chunks]

\* The result loop of search (retriever.py:95-101) from raw slot i on, given
\* the stored list and the results so far.
RECURSIVE SearchRun(_, _, _, _, _)
SearchRun(raw, i, min_score, chunks, results) ==
    IF i > Len(raw) THEN [chunks |-> chunks, res |-> Ok(results)]
    ELSE IF ~Keeps(raw[i], min_score, chunks)
    THEN SearchRun(raw, i + 1, min_score, chunks, results)
    ELSE IF PyItemRaises(chunks, raw[i].id)
    THEN [chunks |-> chunks, res |-> Raise("IndexError")]
    ELSE LET scored == SetItem(DictCopy(chunks, raw[i].id), chunks,
                               "similarity_score", raw[i].score)
             ranked == SetItem(scored.obj, scored.chunks, "rank", i)
         IN  SearchRun(raw, i + 1, min_score, ranked.chunks,
                       Append(results, ranked.obj))

\* The result loop of search_similar (embed_index.py:178-183).
RECURSIVE SimilarRun(_, _, _, _)
SimilarRun(raw, i, chunks, results) ==
    IF i > Len(raw) THEN [chunks |-> chunks, res |-> Ok(results)]
    ELSE IF ~(raw[i].id < Len(chunks))
    THEN SimilarRun(raw, i + 1, chunks, results)
    ELSE IF PyItemRaises(chunks, raw[i].id)
    THEN [chunks |-> chunks, res |-> Raise("IndexError")]
    ELSE LET scored == SetItem(DictCopy(chunks, raw[i].id), chunks,
                               "similarity_score", raw[i].score)
         IN  SimilarRun(raw, i + 1, scored.chunks, Append(results, scored.obj))

copiesFrame == <<disk, builderVars, r_index, r_dimension, r_is_loaded, r_model,
                 r_pc, e_index, e_embeddings, e_vectorizer, e_pc, e_local, th>>

\* MedicalRetriever.search as one call (retriever.py:72-103).
SearchCall(qv, k, min_score) ==
    LET q == NormalizeL2(qv) IN
    /\ IF ~r_is_loaded
       THEN /\ out' = [op |-> "search", res |-> Raise("ValueError")]
            /\ UNCHANGED r_chunks
       ELSE IF r_model = None
       THEN /\ out' = [op |-> "search", res |-> Raise("AttributeError")]
            /\ UNCHANGED r_chunks
       ELSE IF IndexSearchRaises(r_index, q, k)
       THEN /\ out' = [op |-> "search", res |-> Raise("AssertionError")]
            /\ UNCHANGED r_chunks
       ELSE LET run == SearchRun(IndexSearch(r_index, q, k), 1, min_score,
                                 r_chunks, <<>>)
            IN  /\ out' = [op |-> "search", res |-> run.res]
                /\ r_chunks' = run.chunks
    /\ UNCHANGED appVars
    /\ UNCHANGED <<copiesFrame, e_chunks>>

\* EmbeddingIndexer.search_similar as one call (embed_index.py:156-185).
SearchSimilarCall(text, k) ==
    /\ IF e_index = None \/ e_vectorizer = None
       THEN /\ out' = [op |-> "search_similar", res |-> Raise("ValueError")]
            /\ UNCHANGED e_chunks
       ELSE IF ~e_vectorizer.fitted
       THEN /\ out' = [op |-> "search_similar", res |-> Raise("NotFittedError")]
            /\ UNCHANGED e_chunks
       ELSE LET q == NormalizeL2(Transform(e_vectorizer.vocabulary, text)) IN
            IF IndexSearchRaises(e_index, q, k)
            THEN /\ out' = [op |-> "search_similar",
                            res |-> Raise("AssertionError")]
                 /\ UNCHANGED e_chunks
            ELSE LET run == SimilarRun(IndexSearch(e_index, q, k), 1, e_chunks,
                                       <<>>)
                 IN  /\ out' = [op |-> "search_similar", res |-> run.res]
                     /\ e_chunks' = run.chunks
    /\ UNCHANGED appVars
    /\ UNCHANGED <<copiesFrame, r_chunks>>

\* What a caller assigns to a result it was given.
CallerKeys == {"text", "similarity_score"}
CallerValues == {{2}}

\* The caller of the last call assigns to an item of one of its results.
CallerSetsItem(i, key, val) ==
    /\ out.op \in {"search", "search_similar"}
    /\ out.res.kind = "return"
    /\ i \in 1..Len(out.res.value)
    /\ LET stored == IF out.op = "search" THEN r_chunks ELSE e_chunks
           set == SetItem(out.res.value[i], stored, key, val)
       IN  /\ out' = [op |-> out.op, modified |-> TRUE,
                      res |-> Ok([out.res.value EXCEPT ![i] = set.obj])]
           /\ IF out.op = "search"
              THEN r_chunks' = set.chunks /\ UNCHANGED e_chunks
              ELSE e_chunks' = set.chunks /\ UNCHANGED r_chunks
    /\ UNCHANGED appVars
    /\ UNCHANGED copiesFrame

\* A retriever and an indexer have each loaded the directory.
InitCopies ==
    \E d \in ServeDirs :
        LET after == LoadIndex(None, <<>>, None, FALSE, d) IN
        /\ disk = d
        /\ conversation_history = <<>>
        /\ model_name = "gemini-1.5-flash"
        /\ b_pc = [at |-> "new", runs |-> 0]
        /\ b_chunks = <<>>
        /\ r_model = SentenceModel
        /\ r_index = after.index
        /\ r_chunks = after.chunks
        /\ r_dimension = after.dimension
        /\ r_is_loaded = after.is_loaded
        /\ r_pc = "idle"
        /\ e_index = d.index.data
        /\ e_chunks = d.chunks.data
        /\ e_embeddings = d.embeddings.data
        /\ e_vectorizer = d.vectorizer.data
        /\ e_pc = [at |-> "idle", calls |-> 1]
        /\ e_local = None
        /\ out = NoCall
        /\ th = Idle

NextCopies ==
    \/ \E qv \in ServeQueryVecs, k \in 1..MaxK, ms \in ServeMinScores :
           SearchCall(qv, k, ms)
    \/ \E text \in QueryTexts, k \in 1..MaxK : SearchSimilarCall(text, k)
    \/ \E i \in 1..MaxK, key \in CallerKeys, val \in CallerValues :
           CallerSetsItem(i, key, val)

SpecCopies == InitCopies /\ [][NextCopies]_vars

\* C11: after any sequence of search and search_similar calls, and of
\* assignments by callers to the results they were given, both stored chunk
\* lists are as they were loaded (no record has gained a field or changed a
\* value) and no result is a stored record.
C11_StoredChunksUnchanged ==
    /\ r_chunks = disk.chunks.data
    /\ e_chunks = disk.chunks.data
    /\ (out.op \in {"search", "search_similar"} /\ out.res.kind = "return")
          => \A i \in 1..Len(out.res.value) : ~out.res.value[i].stored

\* A caller has changed the text of a result that search returned.
C11_Witness ==
    /\ out.op = "search"
    /\ "modified" \in DOMAIN out
    /\ \E i \in 1..Len(out.res.value) :
           /\ out.res.value[i].rec.text = {2}
           /\ out.res.value[i].rec.rank = i

-----------------------------------------------------------------------------
(* Claims about the query encoder                                           *)

\* C12: a search that returns results has encoded its query with the
\* vectorizer that was fitted on the corpus of the loaded index and saved
\* with it.
C12_QueryEncodedByPersistedEncoder ==
    (out.op = "search" /\ out.res.kind = "return")
        => \E X \in Buildable :
               /\ r_index = BuiltIndex(X)
               /\ r_model = Fitted(FitVocabulary(X))

-----------------------------------------------------------------------------
(* The relevance gates: MedicalRetriever.validate_query, which            *)
(* MedicalQA.is_medical_query returns the is_valid of (qa.py:47-58), and    *)
(* FixedRAGGeminiMedicalChatbot.is_medical_query.                           *)

\* str.lower() on ASCII letters.
LowerAll(c) ==
    CASE c = "A" -> "a"
      [] c = "B" -> "b"
      [] c = "C" -> "c"
      [] c = "D" -> "d"
      [] c = "E" -> "e"
      [] c = "F" -> "f"
      [] c = "G" -> "g"
      [] c = "H" -> "h"
      [] c = "I" -> "i"
      [] c = "J" -> "j"
      [] c = "K" -> "k"
      [] c = "L" -> "l"
      [] c = "M" -> "m"
      [] c = "N" -> "n"
      [] c = "O" -> "o"
      [] c = "P" -> "p"
      [] c = "Q" -> "q"
      [] c = "R" -> "r"
      [] c = "S" -> "s"
      [] c = "T" -> "t"
      [] c = "U" -> "u"
      [] c = "V" -> "v"
      [] c = "W" -> "w"
      [] c = "X" -> "x"
      [] c = "Y" -> "y"
      [] c = "Z" -> "z"
      [] OTHER -> c

QueryLower(s) == [i \in 1..Len(s) |-> LowerAll(s[i])]

\* self.medical_keywords (Medical_AI_Assistant.py:95-298), each keyword once.
chatbot_medical_keywords ==
    { <<"h", "e", "a", "l", "t", "h">>, <<"m", "e", "d", "i", "c", "a", "l">>,
      <<"m", "e", "d", "i", "c", "i", "n", "e">>,
      <<"h", "e", "a", "l", "t", "h", "c", "a", "r", "e">>,
      <<"w", "e", "l", "l", "n", "e", "s", "s">>, <<"f", "i", "t", "n", "e", "s", "s">>,
      <<"d", "i", "s", "e", "a", "s", "e">>, <<"d", "i", "s", "o", "r", "d", "e", "r">>,
      <<"c", "o", "n", "d", "i", "t", "i", "o", "n">>, <<"s", "y", "n", "d", "r", "o", "m", "e">>,
      <<"i", "l", "l", "n", "e", "s", "s">>, <<"s", "i", "c", "k", "n", "e", "s", "s">>,
      <<"s", "y", "m", "p", "t", "o", "m">>, <<"s", "y", "m", "p", "t", "o", "m", "s">>,
      <<"s", "i", "g", "n">>, <<"s", "i", "g", "n", "s">>,
      <<"i", "n", "d", "i", "c", "a", "t", "i", "o", "n">>,
      <<"m", "a", "n", "i", "f", "e", "s", "t", "a", "t", "i", "o", "n">>,
      <<"t", "r", "e", "a", "t", "m", "e", "n", "t">>, <<"t", "h", "e", "r", "a", "p", "y">>,
      <<"c", "u", "r", "e">>, <<"h", "e", "a", "l", "i", "n", "g">>,
      <<"r", "e", "c", "o", "v", "e", "r", "y">>,
      <<"r", "e", "h", "a", "b", "i", "l", "i", "t", "a", "t", "i", "o", "n">>,
      <<"d", "i", "a", "g", "n", "o", "s", "i", "s">>, <<"d", "i", "a", "g", "n", "o", "s", "e">>,
      <<"e", "x", "a", "m", "i", "n", "a", "t", "i", "o", "n">>,
      <<"c", "h", "e", "c", "k", "u", "p">>, <<"s", "c", "r", "e", "e", "n", "i", "n", "g">>,
      <<"t", "e", "s", "t">>, <<"p", "r", "e", "v", "e", "n", "t", "i", "o", "n">>,
      <<"p", "r", "e", "v", "e", "n", "t", "i", "v", "e">>,
      <<"p", "r", "o", "p", "h", "y", "l", "a", "x", "i", "s">>,
      <<"i", "m", "m", "u", "n", "i", "z", "a", "t", "i", "o", "n">>,
      <<"v", "a", "c", "c", "i", "n", "a", "t", "i", "o", "n">>,
      <<"f", "i", "r", "s", "t", " ", "a", "i", "d">>,
      <<"e", "m", "e", "r", "g", "e", "n", "c", "y">>, <<"u", "r", "g", "e", "n", "t">>,
      <<"c", "r", "i", "t", "i", "c", "a", "l">>, <<"a", "c", "u", "t", "e">>,
      <<"c", "h", "r", "o", "n", "i", "c">>, <<"h", "e", "a", "r", "t">>,
      <<"c", "a", "r", "d", "i", "a", "c">>,
      <<"c", "a", "r", "d", "i", "o", "v", "a", "s", "c", "u", "l", "a", "r">>,
      <<"c", "i", "r", "c", "u", "l", "a", "t", "i", "o", "n">>, <<"b", "l", "o", "o", "d">>,
      <<"a", "r", "t", "e", "r", "y">>, <<"v", "e", "i", "n">>, <<"p", "u", "l", "s", "e">>,
      <<"h", "e", "a", "r", "t", "b", "e", "a", "t">>, <<"c", "h", "e", "s", "t">>,
      <<"c", "h", "e", "s", "t", " ", "p", "a", "i", "n">>, <<"a", "n", "g", "i", "n", "a">>,
      <<"l", "u", "n", "g">>, <<"l", "u", "n", "g", "s">>,
      <<"r", "e", "s", "p", "i", "r", "a", "t", "o", "r", "y">>,
      <<"b", "r", "e", "a", "t", "h", "i", "n", "g">>, <<"b", "r", "e", "a", "t", "h">>,
      <<"a", "i", "r", "w", "a", "y">>, <<"s", "t", "o", "m", "a", "c", "h">>,
      <<"g", "a", "s", "t", "r", "i", "c">>, <<"d", "i", "g", "e", "s", "t", "i", "v", "e">>,
      <<"g", "a", "s", "t", "r", "o", "i", "n", "t", "e", "s", "t", "i", "n", "a", "l">>,
      <<"i", "n", "t", "e", "s", "t", "i", "n", "e">>, <<"l", "i", "v", "e", "r">>,
      <<"k", "i", "d", "n", "e", "y">>, <<"k", "i", "d", "n", "e", "y", "s">>,
      <<"b", "l", "a", "d", "d", "e", "r">>, <<"u", "r", "i", "n", "a", "r", "y">>,
      <<"u", "r", "i", "n", "e">>, <<"b", "r", "a", "i", "n">>,
      <<"n", "e", "u", "r", "o", "l", "o", "g", "i", "c", "a", "l">>,
      <<"n", "e", "r", "v", "o", "u", "s", " ", "s", "y", "s", "t", "e", "m">>,
      <<"n", "e", "r", "v", "e">>, <<"n", "e", "r", "v", "e", "s">>,
      <<"m", "u", "s", "c", "l", "e">>, <<"m", "u", "s", "c", "l", "e", "s">>,
      <<"m", "u", "s", "c", "u", "l", "a", "r">>, <<"t", "e", "n", "d", "o", "n">>,
      <<"t", "e", "n", "d", "o", "n", "s">>, <<"l", "i", "g", "a", "m", "e", "n", "t">>,
      <<"b", "o", "n", "e">>, <<"b", "o", "n", "e", "s">>,
      <<"s", "k", "e", "l", "e", "t", "a", "l">>, <<"s", "p", "i", "n", "e">>,
      <<"s", "p", "i", "n", "a", "l">>, <<"j", "o", "i", "n", "t">>,
      <<"j", "o", "i", "n", "t", "s">>, <<"s", "k", "i", "n">>,
      <<"d", "e", "r", "m", "a", "t", "o", "l", "o", "g", "i", "c", "a", "l">>,
      <<"h", "a", "i", "r">>, <<"n", "a", "i", "l", "s">>, <<"t", "e", "e", "t", "h">>,
      <<"d", "e", "n", "t", "a", "l">>, <<"e", "y", "e">>, <<"e", "y", "e", "s">>,
      <<"v", "i", "s", "i", "o", "n">>, <<"v", "i", "s", "u", "a", "l">>, <<"e", "a", "r">>,
      <<"e", "a", "r", "s">>, <<"h", "e", "a", "r", "i", "n", "g">>, <<"n", "o", "s", "e">>,
      <<"n", "a", "s", "a", "l">>, <<"t", "h", "r", "o", "a", "t">>,
      <<"p", "h", "a", "r", "y", "n", "g", "e", "a", "l">>, <<"m", "o", "u", "t", "h">>,
      <<"o", "r", "a", "l">>, <<"p", "a", "i", "n">>, <<"a", "c", "h", "e">>,
      <<"a", "c", "h", "i", "n", "g">>, <<"s", "o", "r", "e">>,
      <<"s", "o", "r", "e", "n", "e", "s", "s">>, <<"t", "e", "n", "d", "e", "r">>,
      <<"t", "e", "n", "d", "e", "r", "n", "e", "s", "s">>, <<"f", "e", "v", "e", "r">>,
      <<"t", "e", "m", "p", "e", "r", "a", "t", "u", "r", "e">>, <<"h", "o", "t">>,
      <<"c", "h", "i", "l", "l", "s">>, <<"s", "w", "e", "a", "t", "i", "n", "g">>,
      <<"s", "w", "e", "a", "t">>, <<"h", "e", "a", "d", "a", "c", "h", "e">>,
      <<"m", "i", "g", "r", "a", "i", "n", "e">>, <<"d", "i", "z", "z", "i", "n", "e", "s", "s">>,
      <<"v", "e", "r", "t", "i", "g", "o">>,
      <<"l", "i", "g", "h", "t", "h", "e", "a", "d", "e", "d">>, <<"n", "a", "u", "s", "e", "a">>,
      <<"n", "a", "u", "s", "e", "o", "u", "s">>, <<"v", "o", "m", "i", "t", "i", "n", "g">>,
      <<"v", "o", "m", "i", "t">>, <<"t", "h", "r", "o", "w", "i", "n", "g", " ", "u", "p">>,
      <<"d", "i", "a", "r", "r", "h", "e", "a">>,
      <<"l", "o", "o", "s", "e", " ", "s", "t", "o", "o", "l", "s">>,
      <<"c", "o", "n", "s", "t", "i", "p", "a", "t", "i", "o", "n">>,
      <<"b", "o", "w", "e", "l", " ", "m", "o", "v", "e", "m", "e", "n", "t">>,
      <<"f", "a", "t", "i", "g", "u", "e">>, <<"t", "i", "r", "e", "d">>,
      <<"e", "x", "h", "a", "u", "s", "t", "e", "d">>, <<"w", "e", "a", "k">>,
      <<"w", "e", "a", "k", "n", "e", "s", "s">>, <<"l", "e", "t", "h", "a", "r", "g", "y">>,
      <<"s", "l", "e", "e", "p">>, <<"s", "l", "e", "e", "p", "i", "n", "g">>,
      <<"i", "n", "s", "o", "m", "n", "i", "a">>, <<"s", "l", "e", "e", "p", "l", "e", "s", "s">>,
      <<"d", "r", "o", "w", "s", "y">>, <<"d", "r", "o", "w", "s", "i", "n", "e", "s", "s">>,
      <<"a", "p", "p", "e", "t", "i", "t", "e">>, <<"h", "u", "n", "g", "e", "r">>,
      <<"t", "h", "i", "r", "s", "t">>, <<"d", "e", "h", "y", "d", "r", "a", "t", "i", "o", "n">>,
      <<"d", "e", "h", "y", "d", "r", "a", "t", "e", "d">>,
      <<"s", "w", "e", "l", "l", "i", "n", "g">>, <<"s", "w", "o", "l", "l", "e", "n">>,
      <<"i", "n", "f", "l", "a", "m", "m", "a", "t", "i", "o", "n">>,
      <<"i", "n", "f", "l", "a", "m", "e", "d">>, <<"r", "e", "d", "n", "e", "s", "s">>,
      <<"r", "a", "s", "h">>, <<"i", "t", "c", "h", "y">>, <<"i", "t", "c", "h", "i", "n", "g">>,
      <<"b", "u", "r", "n", "i", "n", "g">>, <<"s", "t", "i", "n", "g", "i", "n", "g">>,
      <<"n", "u", "m", "b", "n", "e", "s", "s">>, <<"t", "i", "n", "g", "l", "i", "n", "g">>,
      <<"c", "r", "a", "m", "p", "s">>, <<"c", "r", "a", "m", "p", "i", "n", "g">>,
      <<"s", "p", "a", "s", "m", "s">>, <<"s", "t", "i", "f", "f", "n", "e", "s", "s">>,
      <<"r", "i", "g", "i", "d", "i", "t", "y">>,
      <<"s", "h", "o", "r", "t", "n", "e", "s", "s", " ", "o", "f", " ", "b", "r", "e", "a", "t", "h">>,
      <<"w", "h", "e", "e", "z", "i", "n", "g">>, <<"c", "o", "u", "g", "h", "i", "n", "g">>,
      <<"c", "o", "u", "g", "h">>, <<"s", "n", "e", "e", "z", "i", "n", "g">>,
      <<"r", "u", "n", "n", "y", " ", "n", "o", "s", "e">>,
      <<"c", "o", "n", "g", "e", "s", "t", "i", "o", "n">>,
      <<"s", "t", "u", "f", "f", "y", " ", "n", "o", "s", "e">>,
      <<"s", "o", "r", "e", " ", "t", "h", "r", "o", "a", "t">>,
      <<"a", "b", "d", "o", "m", "i", "n", "a", "l", " ", "p", "a", "i", "n">>,
      <<"s", "t", "o", "m", "a", "c", "h", " ", "p", "a", "i", "n">>,
      <<"b", "e", "l", "l", "y", " ", "p", "a", "i", "n">>,
      <<"b", "a", "c", "k", " ", "p", "a", "i", "n">>,
      <<"n", "e", "c", "k", " ", "p", "a", "i", "n">>,
      <<"s", "h", "o", "u", "l", "d", "e", "r", " ", "p", "a", "i", "n">>,
      <<"k", "n", "e", "e", " ", "p", "a", "i", "n">>,
      <<"j", "o", "i", "n", "t", " ", "p", "a", "i", "n">>,
      <<"d", "i", "a", "b", "e", "t", "e", "s">>, <<"d", "i", "a", "b", "e", "t", "i", "c">>,
      <<"b", "l", "o", "o", "d", " ", "s", "u", "g", "a", "r">>,
      <<"g", "l", "u", "c", "o", "s", "e">>, <<"i", "n", "s", "u", "l", "i", "n">>,
      <<"h", "y", "p", "e", "r", "t", "e", "n", "s", "i", "o", "n">>,
      <<"h", "i", "g", "h", " ", "b", "l", "o", "o", "d", " ", "p", "r", "e", "s", "s", "u", "r", "e">>,
      <<"l", "o", "w", " ", "b", "l", "o", "o", "d", " ", "p", "r", "e", "s", "s", "u", "r", "e">>,
      <<"h", "e", "a", "r", "t", " ", "d", "i", "s", "e", "a", "s", "e">>,
      <<"h", "e", "a", "r", "t", " ", "a", "t", "t", "a", "c", "k">>,
      <<"s", "t", "r", "o", "k", "e">>,
      <<"c", "a", "r", "d", "i", "a", "c", " ", "a", "r", "r", "e", "s", "t">>,
      <<"a", "s", "t", "h", "m", "a">>, <<"b", "r", "o", "n", "c", "h", "i", "t", "i", "s">>,
      <<"p", "n", "e", "u", "m", "o", "n", "i", "a">>,
      <<"t", "u", "b", "e", "r", "c", "u", "l", "o", "s", "i", "s">>, <<"c", "o", "v", "i", "d">>,
      <<"c", "a", "n", "c", "e", "r">>, <<"t", "u", "m", "o", "r">>,
      <<"t", "u", "m", "o", "r", "s">>, <<"m", "a", "l", "i", "g", "n", "a", "n", "t">>,
      <<"b", "e", "n", "i", "g", "n">>, <<"m", "e", "t", "a", "s", "t", "a", "s", "i", "s">>,
      <<"a", "r", "t", "h", "r", "i", "t", "i", "s">>,
      <<"r", "h", "e", "u", "m", "a", "t", "o", "i", "d">>,
      <<"o", "s", "t", "e", "o", "a", "r", "t", "h", "r", "i", "t", "i", "s">>,
      <<"g", "o", "u", "t">>, <<"f", "i", "b", "r", "o", "m", "y", "a", "l", "g", "i", "a">>,
      <<"d", "e", "p", "r", "e", "s", "s", "i", "o", "n">>, <<"a", "n", "x", "i", "e", "t", "y">>,
      <<"p", "a", "n", "i", "c">>, <<"p", "a", "n", "i", "c", " ", "a", "t", "t", "a", "c", "k">>,
      <<"m", "e", "n", "t", "a", "l", " ", "h", "e", "a", "l", "t", "h">>,
      <<"b", "i", "p", "o", "l", "a", "r">>,
      <<"s", "c", "h", "i", "z", "o", "p", "h", "r", "e", "n", "i", "a">>, <<"p", "t", "s", "d">>,
      <<"t", "r", "a", "u", "m", "a">>, <<"s", "t", "r", "e", "s", "s">>,
      <<"s", "t", "r", "e", "s", "s", "e", "d">>, <<"a", "l", "l", "e", "r", "g", "y">>,
      <<"a", "l", "l", "e", "r", "g", "i", "c">>,
      <<"a", "n", "a", "p", "h", "y", "l", "a", "x", "i", "s">>,
      <<"h", "a", "y", " ", "f", "e", "v", "e", "r">>,
      <<"i", "n", "f", "e", "c", "t", "i", "o", "n">>,
      <<"b", "a", "c", "t", "e", "r", "i", "a", "l">>, <<"v", "i", "r", "a", "l">>,
      <<"f", "u", "n", "g", "a", "l">>, <<"s", "e", "p", "s", "i", "s">>,
      <<"i", "n", "f", "l", "u", "e", "n", "z", "a">>, <<"f", "l", "u">>, <<"c", "o", "l", "d">>,
      <<"c", "o", "m", "m", "o", "n", " ", "c", "o", "l", "d">>,
      <<"s", "i", "n", "u", "s", "i", "t", "i", "s">>,
      <<"h", "e", "p", "a", "t", "i", "t", "i", "s">>, <<"h", "i", "v">>, <<"a", "i", "d", "s">>,
      <<"e", "p", "i", "l", "e", "p", "s", "y">>, <<"s", "e", "i", "z", "u", "r", "e">>,
      <<"s", "e", "i", "z", "u", "r", "e", "s">>, <<"p", "a", "r", "k", "i", "n", "s", "o", "n">>,
      <<"a", "l", "z", "h", "e", "i", "m", "e", "r">>, <<"d", "e", "m", "e", "n", "t", "i", "a">>,
      <<"m", "e", "m", "o", "r", "y", " ", "l", "o", "s", "s">>,
      <<"c", "o", "n", "f", "u", "s", "i", "o", "n">>, <<"a", "n", "e", "m", "i", "a">>,
      <<"i", "r", "o", "n", " ", "d", "e", "f", "i", "c", "i", "e", "n", "c", "y">>,
      <<"v", "i", "t", "a", "m", "i", "n", " ", "d", "e", "f", "i", "c", "i", "e", "n", "c", "y">>,
      <<"m", "a", "l", "n", "u", "t", "r", "i", "t", "i", "o", "n">>,
      <<"o", "b", "e", "s", "i", "t", "y">>, <<"o", "v", "e", "r", "w", "e", "i", "g", "h", "t">>,
      <<"u", "n", "d", "e", "r", "w", "e", "i", "g", "h", "t">>,
      <<"e", "a", "t", "i", "n", "g", " ", "d", "i", "s", "o", "r", "d", "e", "r">>,
      <<"t", "h", "y", "r", "o", "i", "d">>,
      <<"h", "y", "p", "o", "t", "h", "y", "r", "o", "i", "d", "i", "s", "m">>,
      <<"h", "y", "p", "e", "r", "t", "h", "y", "r", "o", "i", "d", "i", "s", "m">>,
      <<"h", "o", "r", "m", "o", "n", "e">>,
      <<"k", "i", "d", "n", "e", "y", " ", "d", "i", "s", "e", "a", "s", "e">>,
      <<"l", "i", "v", "e", "r", " ", "d", "i", "s", "e", "a", "s", "e">>,
      <<"c", "i", "r", "r", "h", "o", "s", "i", "s">>, <<"u", "l", "c", "e", "r">>,
      <<"u", "l", "c", "e", "r", "s">>, <<"g", "a", "s", "t", "r", "i", "t", "i", "s">>,
      <<"a", "c", "i", "d", " ", "r", "e", "f", "l", "u", "x">>,
      <<"h", "e", "a", "r", "t", "b", "u", "r", "n">>, <<"i", "b", "s">>,
      <<"c", "r", "o", "h", "n">>, <<"c", "o", "l", "i", "t", "i", "s">>,
      <<"d", "i", "v", "e", "r", "t", "i", "c", "u", "l", "i", "t", "i", "s">>,
      <<"h", "e", "m", "o", "r", "r", "h", "o", "i", "d", "s">>,
      <<"m", "e", "d", "i", "c", "a", "t", "i", "o", "n">>, <<"d", "r", "u", "g">>,
      <<"d", "r", "u", "g", "s">>, <<"p", "i", "l", "l">>, <<"p", "i", "l", "l", "s">>,
      <<"t", "a", "b", "l", "e", "t">>, <<"c", "a", "p", "s", "u", "l", "e">>,
      <<"i", "n", "j", "e", "c", "t", "i", "o", "n">>, <<"i", "n", "j", "e", "c", "t">>,
      <<"s", "h", "o", "t">>, <<"s", "h", "o", "t", "s">>,
      <<"a", "n", "t", "i", "b", "i", "o", "t", "i", "c">>,
      <<"a", "n", "t", "i", "b", "i", "o", "t", "i", "c", "s">>,
      <<"p", "a", "i", "n", "k", "i", "l", "l", "e", "r">>,
      <<"p", "a", "i", "n", "k", "i", "l", "l", "e", "r", "s">>,
      <<"a", "n", "t", "i", "d", "e", "p", "r", "e", "s", "s", "a", "n", "t">>,
      <<"a", "n", "t", "i", "d", "e", "p", "r", "e", "s", "s", "a", "n", "t", "s">>,
      <<"a", "n", "x", "i", "e", "t", "y", " ", "m", "e", "d", "i", "c", "a", "t", "i", "o", "n">>,
      <<"b", "l", "o", "o", "d", " ", "p", "r", "e", "s", "s", "u", "r", "e", " ", "m", "e", "d", "i", "c", "a", "t", "i", "o", "n">>,
      <<"d", "i", "a", "b", "e", "t", "e", "s", " ", "m", "e", "d", "i", "c", "a", "t", "i", "o", "n">>,
      <<"c", "h", "e", "m", "o", "t", "h", "e", "r", "a", "p", "y">>,
      <<"r", "a", "d", "i", "a", "t", "i", "o", "n">>, <<"s", "u", "r", "g", "e", "r", "y">>,
      <<"o", "p", "e", "r", "a", "t", "i", "o", "n">>,
      <<"p", "r", "o", "c", "e", "d", "u", "r", "e">>,
      <<"p", "h", "y", "s", "i", "c", "a", "l", " ", "t", "h", "e", "r", "a", "p", "y">>,
      <<"o", "c", "c", "u", "p", "a", "t", "i", "o", "n", "a", "l", " ", "t", "h", "e", "r", "a", "p", "y">>,
      <<"p", "s", "y", "c", "h", "o", "t", "h", "e", "r", "a", "p", "y">>,
      <<"c", "o", "u", "n", "s", "e", "l", "i", "n", "g">>,
      <<"h", "o", "m", "e", " ", "r", "e", "m", "e", "d", "y">>,
      <<"n", "a", "t", "u", "r", "a", "l", " ", "t", "r", "e", "a", "t", "m", "e", "n", "t">>,
      <<"h", "e", "r", "b", "a", "l">>, <<"h", "e", "r", "b", "s">>,
      <<"s", "u", "p", "p", "l", "e", "m", "e", "n", "t">>,
      <<"s", "u", "p", "p", "l", "e", "m", "e", "n", "t", "s">>,
      <<"v", "i", "t", "a", "m", "i", "n">>, <<"v", "i", "t", "a", "m", "i", "n", "s">>,
      <<"m", "i", "n", "e", "r", "a", "l">>, <<"p", "r", "o", "b", "i", "o", "t", "i", "c">>,
      <<"p", "r", "o", "b", "i", "o", "t", "i", "c", "s">>,
      <<"a", "n", "t", "i", "o", "x", "i", "d", "a", "n", "t">>,
      <<"a", "n", "t", "i", "o", "x", "i", "d", "a", "n", "t", "s">>, <<"h", "e", "a", "d">>,
      <<"f", "o", "r", "e", "h", "e", "a", "d">>, <<"t", "e", "m", "p", "l", "e">>,
      <<"s", "k", "u", "l", "l">>, <<"f", "a", "c", "e">>, <<"e", "y", "e", "b", "r", "o", "w">>,
      <<"e", "y", "e", "l", "i", "d">>, <<"e", "y", "e", "l", "a", "s", "h">>,
      <<"p", "u", "p", "i", "l">>, <<"e", "a", "r", "l", "o", "b", "e">>,
      <<"e", "a", "r", "d", "r", "u", "m">>, <<"n", "o", "s", "t", "r", "i", "l">>,
      <<"s", "i", "n", "u", "s">>, <<"s", "i", "n", "u", "s", "e", "s">>, <<"l", "i", "p", "s">>,
      <<"t", "o", "o", "t", "h">>, <<"g", "u", "m", "s">>, <<"t", "o", "n", "g", "u", "e">>,
      <<"p", "h", "a", "r", "y", "n", "x">>, <<"l", "a", "r", "y", "n", "x">>,
      <<"v", "o", "i", "c", "e", " ", "b", "o", "x">>,
      <<"v", "o", "c", "a", "l", " ", "c", "o", "r", "d", "s">>, <<"n", "e", "c", "k">>,
      <<"c", "e", "r", "v", "i", "c", "a", "l">>, <<"w", "i", "n", "d", "p", "i", "p", "e">>,
      <<"t", "r", "a", "c", "h", "e", "a">>, <<"b", "r", "e", "a", "s", "t">>,
      <<"b", "r", "e", "a", "s", "t", "s">>, <<"r", "i", "b">>, <<"r", "i", "b", "s">>,
      <<"s", "t", "e", "r", "n", "u", "m">>, <<"b", "a", "c", "k">>,
      <<"v", "e", "r", "t", "e", "b", "r", "a", "e">>,
      <<"s", "p", "i", "n", "a", "l", " ", "c", "o", "r", "d">>, <<"d", "i", "s", "c">>,
      <<"s", "h", "o", "u", "l", "d", "e", "r">>, <<"s", "h", "o", "u", "l", "d", "e", "r", "s">>,
      <<"a", "r", "m">>, <<"a", "r", "m", "s">>, <<"e", "l", "b", "o", "w">>,
      <<"e", "l", "b", "o", "w", "s">>, <<"w", "r", "i", "s", "t">>,
      <<"w", "r", "i", "s", "t", "s">>, <<"h", "a", "n", "d">>, <<"h", "a", "n", "d", "s">>,
      <<"f", "i", "n", "g", "e", "r">>, <<"f", "i", "n", "g", "e", "r", "s">>,
      <<"t", "h", "u", "m", "b">>, <<"n", "a", "i", "l">>, <<"p", "a", "l", "m">>,
      <<"k", "n", "u", "c", "k", "l", "e">>, <<"h", "i", "p">>, <<"h", "i", "p", "s">>,
      <<"p", "e", "l", "v", "i", "s">>, <<"p", "e", "l", "v", "i", "c">>,
      <<"g", "r", "o", "i", "n">>, <<"l", "e", "g">>, <<"l", "e", "g", "s">>,
      <<"t", "h", "i", "g", "h">>, <<"t", "h", "i", "g", "h", "s">>, <<"k", "n", "e", "e">>,
      <<"k", "n", "e", "e", "s">>, <<"a", "n", "k", "l", "e">>, <<"a", "n", "k", "l", "e", "s">>,
      <<"f", "o", "o", "t">>, <<"f", "e", "e", "t">>, <<"t", "o", "e">>, <<"t", "o", "e", "s">>,
      <<"h", "e", "e", "l">>, <<"h", "e", "e", "l", "s">>, <<"a", "r", "c", "h">>,
      <<"s", "o", "l", "e">>, <<"i", "n", "s", "t", "e", "p">>,
      <<"a", "b", "d", "o", "m", "e", "n">>, <<"b", "e", "l", "l", "y">>,
      <<"t", "u", "m", "m", "y">>, <<"w", "a", "i", "s", "t">>, <<"s", "e", "v", "e", "r", "e">>,
      <<"a", "m", "b", "u", "l", "a", "n", "c", "e">>,
      <<"p", "a", "r", "a", "m", "e", "d", "i", "c">>, <<"e", "r">>,
      <<"e", "m", "e", "r", "g", "e", "n", "c", "y", " ", "r", "o", "o", "m">>,
      <<"i", "n", "j", "u", "r", "y">>, <<"i", "n", "j", "u", "r", "i", "e", "s">>,
      <<"w", "o", "u", "n", "d">>, <<"w", "o", "u", "n", "d", "s">>, <<"c", "u", "t">>,
      <<"c", "u", "t", "s">>, <<"l", "a", "c", "e", "r", "a", "t", "i", "o", "n">>,
      <<"b", "r", "u", "i", "s", "e">>, <<"b", "r", "u", "i", "s", "e", "s">>,
      <<"c", "o", "n", "t", "u", "s", "i", "o", "n">>, <<"b", "u", "r", "n">>,
      <<"b", "u", "r", "n", "s">>, <<"s", "c", "a", "l", "d">>,
      <<"s", "c", "a", "l", "d", "i", "n", "g">>, <<"f", "r", "o", "s", "t", "b", "i", "t", "e">>,
      <<"f", "r", "a", "c", "t", "u", "r", "e">>, <<"b", "r", "o", "k", "e", "n">>,
      <<"b", "r", "e", "a", "k">>, <<"s", "p", "r", "a", "i", "n">>,
      <<"s", "t", "r", "a", "i", "n">>, <<"d", "i", "s", "l", "o", "c", "a", "t", "i", "o", "n">>,
      <<"c", "o", "n", "c", "u", "s", "s", "i", "o", "n">>,
      <<"h", "e", "a", "d", " ", "i", "n", "j", "u", "r", "y">>,
      <<"b", "l", "e", "e", "d", "i", "n", "g">>,
      <<"h", "e", "m", "o", "r", "r", "h", "a", "g", "e">>, <<"s", "h", "o", "c", "k">>,
      <<"u", "n", "c", "o", "n", "s", "c", "i", "o", "u", "s">>,
      <<"u", "n", "r", "e", "s", "p", "o", "n", "s", "i", "v", "e">>,
      <<"c", "h", "o", "k", "i", "n", "g">>, <<"d", "r", "o", "w", "n", "i", "n", "g">>,
      <<"p", "o", "i", "s", "o", "n", "i", "n", "g">>, <<"o", "v", "e", "r", "d", "o", "s", "e">>,
      <<"a", "l", "l", "e", "r", "g", "i", "c", " ", "r", "e", "a", "c", "t", "i", "o", "n">>,
      <<"d", "i", "f", "f", "i", "c", "u", "l", "t", "y", " ", "b", "r", "e", "a", "t", "h", "i", "n", "g">>,
      <<"p", "r", "e", "g", "n", "a", "n", "c", "y">>, <<"p", "r", "e", "g", "n", "a", "n", "t">>,
      <<"p", "r", "e", "n", "a", "t", "a", "l">>, <<"a", "n", "t", "e", "n", "a", "t", "a", "l">>,
      <<"l", "a", "b", "o", "r">>, <<"d", "e", "l", "i", "v", "e", "r", "y">>,
      <<"b", "i", "r", "t", "h">>, <<"c", "h", "i", "l", "d", "b", "i", "r", "t", "h">>,
      <<"m", "i", "s", "c", "a", "r", "r", "i", "a", "g", "e">>,
      <<"m", "e", "n", "s", "t", "r", "u", "a", "t", "i", "o", "n">>,
      <<"m", "e", "n", "s", "t", "r", "u", "a", "l">>, <<"p", "e", "r", "i", "o", "d">>,
      <<"p", "m", "s">>, <<"m", "e", "n", "o", "p", "a", "u", "s", "e">>,
      <<"o", "v", "u", "l", "a", "t", "i", "o", "n">>,
      <<"f", "e", "r", "t", "i", "l", "i", "t", "y">>,
      <<"i", "n", "f", "e", "r", "t", "i", "l", "i", "t", "y">>,
      <<"c", "o", "n", "t", "r", "a", "c", "e", "p", "t", "i", "o", "n">>,
      <<"b", "i", "r", "t", "h", " ", "c", "o", "n", "t", "r", "o", "l">>, <<"i", "u", "d">>,
      <<"c", "o", "n", "d", "o", "m">>, <<"c", "o", "n", "d", "o", "m", "s">>,
      <<"b", "r", "e", "a", "s", "t", "f", "e", "e", "d", "i", "n", "g">>,
      <<"l", "a", "c", "t", "a", "t", "i", "o", "n">>, <<"m", "a", "s", "t", "i", "t", "i", "s">>,
      <<"b", "r", "e", "a", "s", "t", " ", "c", "a", "n", "c", "e", "r">>,
      <<"c", "e", "r", "v", "i", "c", "a", "l", " ", "c", "a", "n", "c", "e", "r">>,
      <<"o", "v", "a", "r", "i", "a", "n", " ", "c", "a", "n", "c", "e", "r">>,
      <<"e", "n", "d", "o", "m", "e", "t", "r", "i", "o", "s", "i", "s">>,
      <<"f", "i", "b", "r", "o", "i", "d", "s">>, <<"c", "y", "s", "t", "s">>,
      <<"p", "o", "l", "y", "c", "y", "s", "t", "i", "c">>, <<"p", "c", "o", "s">>,
      <<"p", "r", "o", "s", "t", "a", "t", "e">>,
      <<"p", "r", "o", "s", "t", "a", "t", "e", " ", "c", "a", "n", "c", "e", "r">>,
      <<"t", "e", "s", "t", "i", "c", "u", "l", "a", "r">>,
      <<"t", "e", "s", "t", "i", "c", "u", "l", "a", "r", " ", "c", "a", "n", "c", "e", "r">>,
      <<"e", "r", "e", "c", "t", "i", "l", "e", " ", "d", "y", "s", "f", "u", "n", "c", "t", "i", "o", "n">>,
      <<"i", "m", "p", "o", "t", "e", "n", "c", "e">>,
      <<"m", "a", "l", "e", " ", "m", "e", "n", "o", "p", "a", "u", "s", "e">>,
      <<"a", "n", "d", "r", "o", "p", "a", "u", "s", "e">>,
      <<"t", "e", "s", "t", "o", "s", "t", "e", "r", "o", "n", "e">>,
      <<"p", "e", "d", "i", "a", "t", "r", "i", "c">>,
      <<"p", "e", "d", "i", "a", "t", "r", "i", "c", "s">>, <<"c", "h", "i", "l", "d">>,
      <<"c", "h", "i", "l", "d", "r", "e", "n">>, <<"b", "a", "b", "y">>,
      <<"b", "a", "b", "i", "e", "s">>, <<"i", "n", "f", "a", "n", "t">>,
      <<"i", "n", "f", "a", "n", "t", "s">>, <<"t", "o", "d", "d", "l", "e", "r">>,
      <<"t", "o", "d", "d", "l", "e", "r", "s">>,
      <<"a", "d", "o", "l", "e", "s", "c", "e", "n", "t">>,
      <<"t", "e", "e", "n", "a", "g", "e", "r">>, <<"t", "e", "e", "n">>,
      <<"g", "r", "o", "w", "t", "h">>, <<"d", "e", "v", "e", "l", "o", "p", "m", "e", "n", "t">>,
      <<"m", "i", "l", "e", "s", "t", "o", "n", "e">>, <<"v", "a", "c", "c", "i", "n", "e", "s">>,
      <<"t", "e", "e", "t", "h", "i", "n", "g">>, <<"c", "o", "l", "i", "c">>,
      <<"d", "i", "a", "p", "e", "r", " ", "r", "a", "s", "h">>,
      <<"c", "r", "a", "d", "l", "e", " ", "c", "a", "p">>, <<"a", "d", "h", "d">>,
      <<"a", "u", "t", "i", "s", "m">>,
      <<"d", "e", "v", "e", "l", "o", "p", "m", "e", "n", "t", "a", "l", " ", "d", "e", "l", "a", "y">>,
      <<"l", "e", "a", "r", "n", "i", "n", "g", " ", "d", "i", "s", "a", "b", "i", "l", "i", "t", "y">>,
      <<"p", "s", "y", "c", "h", "i", "a", "t", "r", "i", "c">>,
      <<"p", "s", "y", "c", "h", "o", "l", "o", "g", "i", "c", "a", "l">>,
      <<"p", "s", "y", "c", "h", "o", "l", "o", "g", "y">>,
      <<"d", "e", "p", "r", "e", "s", "s", "e", "d">>, <<"s", "a", "d">>,
      <<"s", "a", "d", "n", "e", "s", "s">>, <<"m", "o", "o", "d">>, <<"m", "o", "o", "d", "y">>,
      <<"a", "n", "x", "i", "o", "u", "s">>, <<"w", "o", "r", "r", "y">>,
      <<"w", "o", "r", "r", "i", "e", "d">>, <<"p", "h", "o", "b", "i", "a">>,
      <<"p", "h", "o", "b", "i", "a", "s">>, <<"f", "e", "a", "r">>, <<"f", "e", "a", "r", "s">>,
      <<"m", "a", "n", "i", "c">>, <<"m", "a", "n", "i", "a">>,
      <<"p", "s", "y", "c", "h", "o", "s", "i", "s">>, <<"a", "n", "o", "r", "e", "x", "i", "a">>,
      <<"b", "u", "l", "i", "m", "i", "a">>,
      <<"b", "i", "n", "g", "e", " ", "e", "a", "t", "i", "n", "g">>,
      <<"a", "d", "d", "i", "c", "t", "i", "o", "n">>,
      <<"a", "l", "c", "o", "h", "o", "l", "i", "s", "m">>,
      <<"d", "r", "u", "g", " ", "a", "d", "d", "i", "c", "t", "i", "o", "n">>,
      <<"s", "u", "b", "s", "t", "a", "n", "c", "e", " ", "a", "b", "u", "s", "e">>,
      <<"s", "u", "i", "c", "i", "d", "e">>, <<"s", "u", "i", "c", "i", "d", "a", "l">>,
      <<"s", "e", "l", "f", "-", "h", "a", "r", "m">>,
      <<"s", "e", "l", "f", " ", "i", "n", "j", "u", "r", "y">>,
      <<"p", "s", "y", "c", "h", "i", "a", "t", "r", "i", "s", "t">>,
      <<"p", "s", "y", "c", "h", "o", "l", "o", "g", "i", "s", "t">>,
      <<"t", "h", "e", "r", "a", "p", "i", "s", "t">>,
      <<"c", "o", "u", "n", "s", "e", "l", "o", "r">>,
      <<"n", "u", "t", "r", "i", "t", "i", "o", "n">>,
      <<"n", "u", "t", "r", "i", "t", "i", "o", "u", "s">>, <<"d", "i", "e", "t">>,
      <<"d", "i", "e", "t", "a", "r", "y">>, <<"f", "o", "o", "d">>,
      <<"e", "a", "t", "i", "n", "g">>, <<"c", "a", "l", "o", "r", "i", "e">>,
      <<"c", "a", "l", "o", "r", "i", "e", "s">>, <<"p", "r", "o", "t", "e", "i", "n">>,
      <<"c", "a", "r", "b", "o", "h", "y", "d", "r", "a", "t", "e">>, <<"f", "a", "t">>,
      <<"f", "i", "b", "e", "r">>, <<"m", "i", "n", "e", "r", "a", "l", "s">>,
      <<"n", "a", "t", "u", "r", "a", "l">>, <<"o", "r", "g", "a", "n", "i", "c">>,
      <<"i", "n", "t", "o", "l", "e", "r", "a", "n", "c", "e">>,
      <<"l", "a", "c", "t", "o", "s", "e">>, <<"g", "l", "u", "t", "e", "n">>,
      <<"w", "e", "i", "g", "h", "t", " ", "l", "o", "s", "s">>,
      <<"w", "e", "i", "g", "h", "t", " ", "g", "a", "i", "n">>,
      <<"m", "e", "t", "a", "b", "o", "l", "i", "s", "m">>,
      <<"m", "e", "t", "a", "b", "o", "l", "i", "c">>,
      <<"c", "h", "o", "l", "e", "s", "t", "e", "r", "o", "l">>, <<"s", "o", "d", "i", "u", "m">>,
      <<"s", "a", "l", "t">>, <<"s", "u", "g", "a", "r">>, <<"s", "w", "e", "e", "t">>,
      <<"s", "w", "e", "e", "t", "e", "n", "e", "r">>,
      <<"h", "y", "d", "r", "a", "t", "i", "o", "n">>, <<"w", "a", "t", "e", "r">>,
      <<"c", "a", "f", "f", "e", "i", "n", "e">>, <<"a", "l", "c", "o", "h", "o", "l">>,
      <<"s", "m", "o", "k", "i", "n", "g">>, <<"t", "o", "b", "a", "c", "c", "o">>,
      <<"n", "i", "c", "o", "t", "i", "n", "e">>, <<"e", "x", "e", "r", "c", "i", "s", "e">>,
      <<"w", "o", "r", "k", "o", "u", "t">>, <<"t", "r", "a", "i", "n", "i", "n", "g">>,
      <<"p", "h", "y", "s", "i", "c", "a", "l", " ", "a", "c", "t", "i", "v", "i", "t", "y">>,
      <<"c", "a", "r", "d", "i", "o">>, <<"s", "t", "r", "e", "n", "g", "t", "h">>,
      <<"f", "l", "e", "x", "i", "b", "i", "l", "i", "t", "y">>,
      <<"s", "t", "r", "e", "t", "c", "h", "i", "n", "g">>, <<"y", "o", "g", "a">>,
      <<"p", "i", "l", "a", "t", "e", "s">>, <<"r", "u", "n", "n", "i", "n", "g">>,
      <<"w", "a", "l", "k", "i", "n", "g">>, <<"c", "y", "c", "l", "i", "n", "g">>,
      <<"s", "w", "i", "m", "m", "i", "n", "g">>, <<"g", "y", "m">>,
      <<"g", "y", "m", "n", "a", "s", "i", "u", "m">>, <<"s", "p", "o", "r", "t", "s">>,
      <<"a", "t", "h", "l", "e", "t", "i", "c">>, <<"a", "t", "h", "l", "e", "t", "e">>,
      <<"p", "e", "r", "f", "o", "r", "m", "a", "n", "c", "e">>,
      <<"e", "n", "d", "u", "r", "a", "n", "c", "e">>, <<"r", "e", "h", "a", "b">>, <<"p", "t">>,
      <<"w", "a", "r", "m", "-", "u", "p">>, <<"c", "o", "o", "l", "-", "d", "o", "w", "n">>,
      <<"a", "g", "i", "n", "g">>, <<"e", "l", "d", "e", "r", "l", "y">>,
      <<"s", "e", "n", "i", "o", "r">>, <<"s", "e", "n", "i", "o", "r", "s">>,
      <<"g", "e", "r", "i", "a", "t", "r", "i", "c">>,
      <<"g", "e", "r", "i", "a", "t", "r", "i", "c", "s">>, <<"m", "e", "m", "o", "r", "y">>,
      <<"c", "o", "g", "n", "i", "t", "i", "v", "e">>,
      <<"c", "o", "g", "n", "i", "t", "i", "o", "n">>,
      <<"o", "s", "t", "e", "o", "p", "o", "r", "o", "s", "i", "s">>,
      <<"b", "o", "n", "e", " ", "d", "e", "n", "s", "i", "t", "y">>, <<"f", "a", "l", "l">>,
      <<"f", "a", "l", "l", "s">>, <<"b", "a", "l", "a", "n", "c", "e">>,
      <<"m", "o", "b", "i", "l", "i", "t", "y">>,
      <<"i", "n", "d", "e", "p", "e", "n", "d", "e", "n", "c", "e">>,
      <<"c", "a", "r", "e", "g", "i", "v", "e", "r">>,
      <<"c", "a", "r", "e", "g", "i", "v", "i", "n", "g">>,
      <<"n", "u", "r", "s", "i", "n", "g", " ", "h", "o", "m", "e">>,
      <<"a", "s", "s", "i", "s", "t", "e", "d", " ", "l", "i", "v", "i", "n", "g">>,
      <<"m", "e", "d", "i", "c", "a", "t", "i", "o", "n", "s">>,
      <<"p", "o", "l", "y", "p", "h", "a", "r", "m", "a", "c", "y">>,
      <<"s", "i", "d", "e", " ", "e", "f", "f", "e", "c", "t", "s">>,
      <<"a", "l", "t", "e", "r", "n", "a", "t", "i", "v", "e", " ", "m", "e", "d", "i", "c", "i", "n", "e">>,
      <<"c", "o", "m", "p", "l", "e", "m", "e", "n", "t", "a", "r", "y">>,
      <<"h", "o", "l", "i", "s", "t", "i", "c">>,
      <<"h", "o", "m", "e", "o", "p", "a", "t", "h", "y">>,
      <<"a", "c", "u", "p", "u", "n", "c", "t", "u", "r", "e">>,
      <<"c", "h", "i", "r", "o", "p", "r", "a", "c", "t", "i", "c">>,
      <<"m", "a", "s", "s", "a", "g", "e">>, <<"m", "e", "d", "i", "t", "a", "t", "i", "o", "n">>,
      <<"m", "i", "n", "d", "f", "u", "l", "n", "e", "s", "s">>,
      <<"r", "e", "l", "a", "x", "a", "t", "i", "o", "n">>,
      <<"s", "t", "r", "e", "s", "s", " ", "m", "a", "n", "a", "g", "e", "m", "e", "n", "t">>,
      <<"a", "r", "o", "m", "a", "t", "h", "e", "r", "a", "p", "y">>,
      <<"e", "s", "s", "e", "n", "t", "i", "a", "l", " ", "o", "i", "l", "s">>,
      <<"h", "e", "r", "b", "a", "l", " ", "m", "e", "d", "i", "c", "i", "n", "e">>,
      <<"t", "a", "i", " ", "c", "h", "i">>, <<"q", "i", "g", "o", "n", "g">>,
      <<"r", "e", "f", "l", "e", "x", "o", "l", "o", "g", "y">>, <<"r", "e", "i", "k", "i">>,
      <<"s", "t", "e", "t", "h", "o", "s", "c", "o", "p", "e">>,
      <<"t", "h", "e", "r", "m", "o", "m", "e", "t", "e", "r">>,
      <<"b", "l", "o", "o", "d", " ", "p", "r", "e", "s", "s", "u", "r", "e", " ", "c", "u", "f", "f">>,
      <<"m", "o", "n", "i", "t", "o", "r">>,
      <<"d", "e", "f", "i", "b", "r", "i", "l", "l", "a", "t", "o", "r">>,
      <<"p", "a", "c", "e", "m", "a", "k", "e", "r">>,
      <<"i", "n", "s", "u", "l", "i", "n", " ", "p", "u", "m", "p">>,
      <<"g", "l", "u", "c", "o", "s", "e", " ", "m", "e", "t", "e", "r">>,
      <<"i", "n", "h", "a", "l", "e", "r">>, <<"n", "e", "b", "u", "l", "i", "z", "e", "r">>,
      <<"o", "x", "y", "g", "e", "n">>, <<"v", "e", "n", "t", "i", "l", "a", "t", "o", "r">>,
      <<"w", "h", "e", "e", "l", "c", "h", "a", "i", "r">>, <<"w", "a", "l", "k", "e", "r">>,
      <<"c", "a", "n", "e">>, <<"c", "r", "u", "t", "c", "h", "e", "s">>,
      <<"b", "r", "a", "c", "e">>, <<"c", "a", "s", "t">>, <<"s", "p", "l", "i", "n", "t">>,
      <<"b", "a", "n", "d", "a", "g", "e">>, <<"b", "a", "n", "d", "a", "g", "e", "s">>,
      <<"g", "a", "u", "z", "e">>, <<"t", "a", "p", "e">>,
      <<"a", "d", "h", "e", "s", "i", "v", "e">>, <<"s", "y", "r", "i", "n", "g", "e">>,
      <<"n", "e", "e", "d", "l", "e">>, <<"n", "e", "e", "d", "l", "e", "s">>, <<"i", "v">>,
      <<"c", "a", "t", "h", "e", "t", "e", "r">>,
      <<"c", "a", "r", "d", "i", "o", "l", "o", "g", "y">>,
      <<"d", "e", "r", "m", "a", "t", "o", "l", "o", "g", "y">>,
      <<"d", "e", "r", "m", "a", "t", "o", "l", "o", "g", "i", "s", "t">>,
      <<"e", "n", "d", "o", "c", "r", "i", "n", "o", "l", "o", "g", "y">>,
      <<"e", "n", "d", "o", "c", "r", "i", "n", "o", "l", "o", "g", "i", "s", "t">>,
      <<"g", "a", "s", "t", "r", "o", "e", "n", "t", "e", "r", "o", "l", "o", "g", "y">>,
      <<"g", "a", "s", "t", "r", "o", "e", "n", "t", "e", "r", "o", "l", "o", "g", "i", "s", "t">>,
      <<"n", "e", "u", "r", "o", "l", "o", "g", "y">>,
      <<"n", "e", "u", "r", "o", "l", "o", "g", "i", "s", "t">>,
      <<"o", "n", "c", "o", "l", "o", "g", "y">>,
      <<"o", "n", "c", "o", "l", "o", "g", "i", "s", "t">>,
      <<"o", "r", "t", "h", "o", "p", "e", "d", "i", "c", "s">>,
      <<"o", "r", "t", "h", "o", "p", "e", "d", "i", "s", "t">>,
      <<"p", "e", "d", "i", "a", "t", "r", "i", "c", "i", "a", "n">>,
      <<"p", "s", "y", "c", "h", "i", "a", "t", "r", "y">>,
      <<"r", "a", "d", "i", "o", "l", "o", "g", "y">>,
      <<"r", "a", "d", "i", "o", "l", "o", "g", "i", "s", "t">>,
      <<"s", "u", "r", "g", "e", "o", "n">>, <<"u", "r", "o", "l", "o", "g", "y">>,
      <<"u", "r", "o", "l", "o", "g", "i", "s", "t">>,
      <<"g", "y", "n", "e", "c", "o", "l", "o", "g", "y">>,
      <<"g", "y", "n", "e", "c", "o", "l", "o", "g", "i", "s", "t">>,
      <<"o", "p", "h", "t", "h", "a", "l", "m", "o", "l", "o", "g", "y">>,
      <<"o", "p", "h", "t", "h", "a", "l", "m", "o", "l", "o", "g", "i", "s", "t">>,
      <<"o", "t", "o", "l", "a", "r", "y", "n", "g", "o", "l", "o", "g", "y">>, <<"e", "n", "t">>,
      <<"a", "n", "e", "s", "t", "h", "e", "s", "i", "o", "l", "o", "g", "y">>,
      <<"a", "n", "e", "s", "t", "h", "e", "s", "i", "o", "l", "o", "g", "i", "s", "t">>,
      <<"p", "a", "t", "h", "o", "l", "o", "g", "y">>,
      <<"p", "a", "t", "h", "o", "l", "o", "g", "i", "s", "t">>,
      <<"e", "m", "e", "r", "g", "e", "n", "c", "y", " ", "m", "e", "d", "i", "c", "i", "n", "e">>,
      <<"f", "a", "m", "i", "l", "y", " ", "m", "e", "d", "i", "c", "i", "n", "e">>,
      <<"i", "n", "t", "e", "r", "n", "a", "l", " ", "m", "e", "d", "i", "c", "i", "n", "e">>,
      <<"g", "e", "r", "i", "a", "t", "r", "i", "c", "i", "a", "n">> }

\* self.non_medical_keywords (Medical_AI_Assistant.py:301-394), each keyword once.
non_medical_keywords ==
    { <<"m", "a", "t", "h", "e", "m", "a", "t", "i", "c", "s">>, <<"m", "a", "t", "h">>,
      <<"a", "l", "g", "e", "b", "r", "a">>, <<"g", "e", "o", "m", "e", "t", "r", "y">>,
      <<"c", "a", "l", "c", "u", "l", "u", "s">>,
      <<"s", "t", "a", "t", "i", "s", "t", "i", "c", "s">>, <<"p", "h", "y", "s", "i", "c", "s">>,
      <<"c", "h", "e", "m", "i", "s", "t", "r", "y">>, <<"b", "i", "o", "l", "o", "g", "y">>,
      <<"s", "c", "i", "e", "n", "c", "e">>, <<"s", "c", "i", "e", "n", "t", "i", "f", "i", "c">>,
      <<"r", "e", "s", "e", "a", "r", "c", "h">>,
      <<"e", "x", "p", "e", "r", "i", "m", "e", "n", "t">>,
      <<"l", "a", "b", "o", "r", "a", "t", "o", "r", "y">>, <<"l", "a", "b">>,
      <<"h", "y", "p", "o", "t", "h", "e", "s", "i", "s">>, <<"t", "h", "e", "o", "r", "y">>,
      <<"f", "o", "r", "m", "u", "l", "a">>, <<"e", "q", "u", "a", "t", "i", "o", "n">>,
      <<"c", "a", "l", "c", "u", "l", "a", "t", "i", "o", "n">>,
      <<"c", "o", "m", "p", "u", "t", "a", "t", "i", "o", "n">>, <<"d", "a", "t", "a">>,
      <<"a", "n", "a", "l", "y", "s", "i", "s">>, <<"h", "i", "s", "t", "o", "r", "y">>,
      <<"h", "i", "s", "t", "o", "r", "i", "c", "a", "l">>, <<"a", "n", "c", "i", "e", "n", "t">>,
      <<"m", "e", "d", "i", "e", "v", "a", "l">>, <<"m", "o", "d", "e", "r", "n">>,
      <<"w", "a", "r">>, <<"b", "a", "t", "t", "l", "e">>, <<"e", "m", "p", "i", "r", "e">>,
      <<"k", "i", "n", "g", "d", "o", "m">>,
      <<"c", "i", "v", "i", "l", "i", "z", "a", "t", "i", "o", "n">>,
      <<"c", "u", "l", "t", "u", "r", "e">>, <<"h", "e", "r", "i", "t", "a", "g", "e">>,
      <<"g", "e", "o", "g", "r", "a", "p", "h", "y">>, <<"c", "o", "u", "n", "t", "r", "y">>,
      <<"n", "a", "t", "i", "o", "n">>, <<"c", "o", "n", "t", "i", "n", "e", "n", "t">>,
      <<"o", "c", "e", "a", "n">>, <<"m", "o", "u", "n", "t", "a", "i", "n">>,
      <<"r", "i", "v", "e", "r">>, <<"c", "i", "t", "y">>, <<"c", "a", "p", "i", "t", "a", "l">>,
      <<"p", "o", "p", "u", "l", "a", "t", "i", "o", "n">>,
      <<"d", "e", "m", "o", "g", "r", "a", "p", "h", "i", "c", "s">>,
      <<"p", "o", "l", "i", "t", "i", "c", "s">>, <<"p", "o", "l", "i", "t", "i", "c", "a", "l">>,
      <<"g", "o", "v", "e", "r", "n", "m", "e", "n", "t">>,
      <<"e", "l", "e", "c", "t", "i", "o", "n">>, <<"v", "o", "t", "e">>,
      <<"v", "o", "t", "i", "n", "g">>, <<"p", "r", "e", "s", "i", "d", "e", "n", "t">>,
      <<"p", "r", "i", "m", "e", " ", "m", "i", "n", "i", "s", "t", "e", "r">>,
      <<"p", "a", "r", "l", "i", "a", "m", "e", "n", "t">>,
      <<"c", "o", "n", "g", "r", "e", "s", "s">>, <<"s", "e", "n", "a", "t", "e">>,
      <<"d", "e", "m", "o", "c", "r", "a", "c", "y">>, <<"r", "e", "p", "u", "b", "l", "i", "c">>,
      <<"m", "o", "n", "a", "r", "c", "h", "y">>,
      <<"d", "i", "c", "t", "a", "t", "o", "r", "s", "h", "i", "p">>,
      <<"p", "o", "l", "i", "c", "y">>, <<"l", "a", "w">>, <<"l", "e", "g", "a", "l">>,
      <<"c", "o", "u", "r", "t">>, <<"j", "u", "d", "g", "e">>,
      <<"j", "u", "s", "t", "i", "c", "e">>, <<"r", "i", "g", "h", "t", "s">>,
      <<"f", "r", "e", "e", "d", "o", "m">>, <<"w", "e", "a", "t", "h", "e", "r">>,
      <<"c", "l", "i", "m", "a", "t", "e">>,
      <<"t", "e", "m", "p", "e", "r", "a", "t", "u", "r", "e">>, <<"r", "a", "i", "n">>,
      <<"s", "n", "o", "w">>, <<"s", "t", "o", "r", "m">>,
      <<"h", "u", "r", "r", "i", "c", "a", "n", "e">>, <<"t", "o", "r", "n", "a", "d", "o">>,
      <<"f", "o", "r", "e", "c", "a", "s", "t">>, <<"s", "e", "a", "s", "o", "n">>,
      <<"s", "u", "m", "m", "e", "r">>, <<"w", "i", "n", "t", "e", "r">>,
      <<"s", "p", "r", "i", "n", "g">>, <<"a", "u", "t", "u", "m", "n">>,
      <<"e", "n", "v", "i", "r", "o", "n", "m", "e", "n", "t">>,
      <<"p", "o", "l", "l", "u", "t", "i", "o", "n">>,
      <<"g", "l", "o", "b", "a", "l", " ", "w", "a", "r", "m", "i", "n", "g">>,
      <<"r", "e", "n", "e", "w", "a", "b", "l", "e", " ", "e", "n", "e", "r", "g", "y">>,
      <<"s", "u", "s", "t", "a", "i", "n", "a", "b", "i", "l", "i", "t", "y">>,
      <<"c", "o", "n", "s", "e", "r", "v", "a", "t", "i", "o", "n">>,
      <<"s", "p", "o", "r", "t", "s">>, <<"f", "o", "o", "t", "b", "a", "l", "l">>,
      <<"s", "o", "c", "c", "e", "r">>, <<"b", "a", "s", "k", "e", "t", "b", "a", "l", "l">>,
      <<"c", "r", "i", "c", "k", "e", "t">>, <<"t", "e", "n", "n", "i", "s">>,
      <<"g", "o", "l", "f">>, <<"b", "a", "s", "e", "b", "a", "l", "l">>,
      <<"h", "o", "c", "k", "e", "y">>, <<"s", "w", "i", "m", "m", "i", "n", "g">>,
      <<"r", "u", "n", "n", "i", "n", "g">>, <<"c", "y", "c", "l", "i", "n", "g">>,
      <<"g", "y", "m">>, <<"f", "i", "t", "n", "e", "s", "s">>,
      <<"e", "x", "e", "r", "c", "i", "s", "e">>, <<"w", "o", "r", "k", "o", "u", "t">>,
      <<"t", "r", "a", "i", "n", "i", "n", "g">>,
      <<"c", "o", "m", "p", "e", "t", "i", "t", "i", "o", "n">>,
      <<"t", "o", "u", "r", "n", "a", "m", "e", "n", "t">>,
      <<"c", "h", "a", "m", "p", "i", "o", "n", "s", "h", "i", "p">>,
      <<"o", "l", "y", "m", "p", "i", "c", "s">>,
      <<"r", "e", "c", "r", "e", "a", "t", "i", "o", "n">>, <<"h", "o", "b", "b", "y">>,
      <<"e", "n", "t", "e", "r", "t", "a", "i", "n", "m", "e", "n", "t">>,
      <<"m", "o", "v", "i", "e">>, <<"f", "i", "l", "m">>, <<"c", "i", "n", "e", "m", "a">>,
      <<"t", "e", "l", "e", "v", "i", "s", "i", "o", "n">>, <<"t", "v">>,
      <<"m", "u", "s", "i", "c">>, <<"s", "o", "n", "g">>, <<"a", "l", "b", "u", "m">>,
      <<"c", "o", "n", "c", "e", "r", "t">>, <<"d", "a", "n", "c", "e">>,
      <<"d", "a", "n", "c", "i", "n", "g">>, <<"a", "r", "t">>,
      <<"p", "a", "i", "n", "t", "i", "n", "g">>, <<"d", "r", "a", "w", "i", "n", "g">>,
      <<"s", "c", "u", "l", "p", "t", "u", "r", "e">>, <<"g", "a", "l", "l", "e", "r", "y">>,
      <<"m", "u", "s", "e", "u", "m">>, <<"t", "h", "e", "a", "t", "e", "r">>,
      <<"t", "h", "e", "a", "t", "r", "e">>, <<"p", "l", "a", "y">>, <<"d", "r", "a", "m", "a">>,
      <<"c", "o", "m", "e", "d", "y">>, <<"a", "c", "t", "o", "r">>,
      <<"a", "c", "t", "r", "e", "s", "s">>, <<"d", "i", "r", "e", "c", "t", "o", "r">>,
      <<"p", "r", "o", "d", "u", "c", "e", "r">>, <<"c", "e", "l", "e", "b", "r", "i", "t", "y">>,
      <<"f", "a", "m", "o", "u", "s">>, <<"c", "o", "o", "k", "i", "n", "g">>,
      <<"r", "e", "c", "i", "p", "e">>, <<"f", "o", "o", "d", " ", "r", "e", "c", "i", "p", "e">>,
      <<"r", "e", "s", "t", "a", "u", "r", "a", "n", "t">>, <<"c", "u", "i", "s", "i", "n", "e">>,
      <<"c", "h", "e", "f">>, <<"k", "i", "t", "c", "h", "e", "n">>,
      <<"i", "n", "g", "r", "e", "d", "i", "e", "n", "t", "s">>, <<"m", "e", "a", "l">>,
      <<"b", "r", "e", "a", "k", "f", "a", "s", "t">>, <<"l", "u", "n", "c", "h">>,
      <<"d", "i", "n", "n", "e", "r">>, <<"s", "n", "a", "c", "k">>,
      <<"b", "e", "v", "e", "r", "a", "g", "e">>, <<"d", "r", "i", "n", "k">>,
      <<"c", "o", "f", "f", "e", "e">>, <<"t", "e", "a">>, <<"w", "i", "n", "e">>,
      <<"b", "e", "e", "r">>, <<"a", "l", "c", "o", "h", "o", "l">>, <<"d", "i", "e", "t">>,
      <<"n", "u", "t", "r", "i", "t", "i", "o", "n">>, <<"c", "a", "l", "o", "r", "i", "e", "s">>,
      <<"t", "r", "a", "v", "e", "l">>, <<"t", "o", "u", "r", "i", "s", "m">>,
      <<"v", "a", "c", "a", "t", "i", "o", "n">>, <<"h", "o", "l", "i", "d", "a", "y">>,
      <<"t", "r", "i", "p">>, <<"j", "o", "u", "r", "n", "e", "y">>, <<"h", "o", "t", "e", "l">>,
      <<"b", "o", "o", "k", "i", "n", "g">>,
      <<"r", "e", "s", "e", "r", "v", "a", "t", "i", "o", "n">>, <<"f", "l", "i", "g", "h", "t">>,
      <<"a", "i", "r", "p", "l", "a", "n", "e">>, <<"a", "i", "r", "p", "o", "r", "t">>,
      <<"t", "r", "a", "i", "n">>, <<"b", "u", "s">>, <<"c", "a", "r">>,
      <<"d", "r", "i", "v", "i", "n", "g">>, <<"r", "o", "a", "d">>,
      <<"h", "i", "g", "h", "w", "a", "y">>, <<"p", "a", "s", "s", "p", "o", "r", "t">>,
      <<"v", "i", "s", "a">>, <<"d", "e", "s", "t", "i", "n", "a", "t", "i", "o", "n">>,
      <<"s", "i", "g", "h", "t", "s", "e", "e", "i", "n", "g">>, <<"t", "o", "u", "r">>,
      <<"s", "h", "o", "p", "p", "i", "n", "g">>, <<"b", "u", "y">>, <<"s", "e", "l", "l">>,
      <<"p", "u", "r", "c", "h", "a", "s", "e">>, <<"p", "r", "i", "c", "e">>,
      <<"c", "o", "s", "t">>, <<"m", "o", "n", "e", "y">>, <<"s", "t", "o", "r", "e">>,
      <<"s", "h", "o", "p">>, <<"m", "a", "r", "k", "e", "t">>, <<"m", "a", "l", "l">>,
      <<"o", "n", "l", "i", "n", "e">>, <<"e", "c", "o", "m", "m", "e", "r", "c", "e">>,
      <<"p", "r", "o", "d", "u", "c", "t">>, <<"b", "r", "a", "n", "d">>,
      <<"a", "d", "v", "e", "r", "t", "i", "s", "e", "m", "e", "n", "t">>,
      <<"m", "a", "r", "k", "e", "t", "i", "n", "g">>, <<"s", "a", "l", "e", "s">>,
      <<"d", "i", "s", "c", "o", "u", "n", "t">>, <<"o", "f", "f", "e", "r">>,
      <<"d", "e", "a", "l">>, <<"b", "a", "r", "g", "a", "i", "n">>,
      <<"p", "a", "y", "m", "e", "n", "t">>, <<"c", "r", "e", "d", "i", "t">>,
      <<"t", "e", "c", "h", "n", "o", "l", "o", "g", "y">>,
      <<"c", "o", "m", "p", "u", "t", "e", "r">>,
      <<"p", "r", "o", "g", "r", "a", "m", "m", "i", "n", "g">>, <<"c", "o", "d", "i", "n", "g">>,
      <<"s", "o", "f", "t", "w", "a", "r", "e">>, <<"h", "a", "r", "d", "w", "a", "r", "e">>,
      <<"i", "n", "t", "e", "r", "n", "e", "t">>, <<"w", "e", "b", "s", "i", "t", "e">>,
      <<"a", "p", "p">>, <<"a", "p", "p", "l", "i", "c", "a", "t", "i", "o", "n">>,
      <<"m", "o", "b", "i", "l", "e">>, <<"p", "h", "o", "n", "e">>,
      <<"s", "m", "a", "r", "t", "p", "h", "o", "n", "e">>, <<"t", "a", "b", "l", "e", "t">>,
      <<"l", "a", "p", "t", "o", "p">>, <<"d", "e", "s", "k", "t", "o", "p">>,
      <<"g", "a", "m", "i", "n", "g">>, <<"v", "i", "d", "e", "o", " ", "g", "a", "m", "e">>,
      <<"c", "o", "n", "s", "o", "l", "e">>, <<"a", "i">>,
      <<"a", "r", "t", "i", "f", "i", "c", "i", "a", "l", " ", "i", "n", "t", "e", "l", "l", "i", "g", "e", "n", "c", "e">>,
      <<"m", "a", "c", "h", "i", "n", "e", " ", "l", "e", "a", "r", "n", "i", "n", "g">>,
      <<"d", "a", "t", "a", " ", "s", "c", "i", "e", "n", "c", "e">>,
      <<"c", "y", "b", "e", "r", "s", "e", "c", "u", "r", "i", "t", "y">>,
      <<"b", "l", "o", "c", "k", "c", "h", "a", "i", "n">>, <<"f", "i", "n", "a", "n", "c", "e">>,
      <<"b", "a", "n", "k", "i", "n", "g">>, <<"i", "n", "v", "e", "s", "t", "m", "e", "n", "t">>,
      <<"s", "t", "o", "c", "k">>, <<"t", "r", "a", "d", "i", "n", "g">>,
      <<"e", "c", "o", "n", "o", "m", "y">>, <<"e", "c", "o", "n", "o", "m", "i", "c">>,
      <<"b", "u", "s", "i", "n", "e", "s", "s">>, <<"c", "o", "m", "p", "a", "n", "y">>,
      <<"c", "o", "r", "p", "o", "r", "a", "t", "i", "o", "n">>, <<"p", "r", "o", "f", "i", "t">>,
      <<"r", "e", "v", "e", "n", "u", "e">>, <<"i", "n", "c", "o", "m", "e">>,
      <<"s", "a", "l", "a", "r", "y">>, <<"w", "a", "g", "e">>, <<"b", "u", "d", "g", "e", "t">>,
      <<"l", "o", "a", "n">>, <<"d", "e", "b", "t">>,
      <<"i", "n", "s", "u", "r", "a", "n", "c", "e">>, <<"t", "a", "x">>,
      <<"a", "c", "c", "o", "u", "n", "t", "i", "n", "g">>,
      <<"e", "d", "u", "c", "a", "t", "i", "o", "n">>, <<"s", "c", "h", "o", "o", "l">>,
      <<"c", "o", "l", "l", "e", "g", "e">>, <<"u", "n", "i", "v", "e", "r", "s", "i", "t", "y">>,
      <<"s", "t", "u", "d", "y">>, <<"s", "t", "u", "d", "y", "i", "n", "g">>,
      <<"s", "t", "u", "d", "e", "n", "t">>, <<"t", "e", "a", "c", "h", "e", "r">>,
      <<"p", "r", "o", "f", "e", "s", "s", "o", "r">>, <<"a", "c", "a", "d", "e", "m", "i", "c">>,
      <<"d", "e", "g", "r", "e", "e">>, <<"d", "i", "p", "l", "o", "m", "a">>,
      <<"c", "o", "u", "r", "s", "e">>, <<"c", "l", "a", "s", "s">>,
      <<"l", "e", "s", "s", "o", "n">>, <<"l", "e", "c", "t", "u", "r", "e">>,
      <<"h", "o", "m", "e", "w", "o", "r", "k">>, <<"e", "x", "a", "m">>, <<"t", "e", "s", "t">>,
      <<"g", "r", "a", "d", "e">>, <<"s", "c", "h", "o", "l", "a", "r", "s", "h", "i", "p">>,
      <<"t", "u", "i", "t", "i", "o", "n">>, <<"c", "a", "m", "p", "u", "s">>, <<"j", "o", "b">>,
      <<"c", "a", "r", "e", "e", "r">>, <<"e", "m", "p", "l", "o", "y", "m", "e", "n", "t">>,
      <<"w", "o", "r", "k">>, <<"w", "o", "r", "k", "i", "n", "g">>,
      <<"o", "f", "f", "i", "c", "e">>, <<"m", "e", "e", "t", "i", "n", "g">>,
      <<"p", "r", "o", "j", "e", "c", "t">>, <<"t", "a", "s", "k">>,
      <<"d", "e", "a", "d", "l", "i", "n", "e">>, <<"b", "o", "s", "s">>,
      <<"m", "a", "n", "a", "g", "e", "r">>, <<"c", "o", "l", "l", "e", "a", "g", "u", "e">>,
      <<"e", "m", "p", "l", "o", "y", "e", "e">>, <<"e", "m", "p", "l", "o", "y", "e", "r">>,
      <<"i", "n", "t", "e", "r", "v", "i", "e", "w">>, <<"r", "e", "s", "u", "m", "e">>,
      <<"h", "i", "r", "i", "n", "g">>, <<"f", "i", "r", "i", "n", "g">>,
      <<"p", "r", "o", "m", "o", "t", "i", "o", "n">>,
      <<"r", "e", "t", "i", "r", "e", "m", "e", "n", "t">>,
      <<"r", "e", "l", "a", "t", "i", "o", "n", "s", "h", "i", "p">>,
      <<"d", "a", "t", "i", "n", "g">>, <<"m", "a", "r", "r", "i", "a", "g", "e">>,
      <<"w", "e", "d", "d", "i", "n", "g">>, <<"f", "a", "m", "i", "l", "y">>,
      <<"f", "r", "i", "e", "n", "d">>, <<"f", "r", "i", "e", "n", "d", "s", "h", "i", "p">>,
      <<"s", "o", "c", "i", "a", "l">>, <<"p", "a", "r", "t", "y">>,
      <<"c", "e", "l", "e", "b", "r", "a", "t", "i", "o", "n">>,
      <<"b", "i", "r", "t", "h", "d", "a", "y">>,
      <<"a", "n", "n", "i", "v", "e", "r", "s", "a", "r", "y">>,
      <<"f", "e", "s", "t", "i", "v", "a", "l">>, <<"e", "v", "e", "n", "t">>,
      <<"c", "o", "m", "m", "u", "n", "i", "t", "y">>, <<"s", "o", "c", "i", "e", "t", "y">>,
      <<"t", "r", "a", "d", "i", "t", "i", "o", "n">>, <<"c", "u", "s", "t", "o", "m">>,
      <<"f", "a", "s", "h", "i", "o", "n">>, <<"c", "l", "o", "t", "h", "i", "n", "g">>,
      <<"s", "t", "y", "l", "e">>, <<"b", "e", "a", "u", "t", "y">>,
      <<"c", "o", "s", "m", "e", "t", "i", "c", "s">>, <<"h", "o", "m", "e">>,
      <<"h", "o", "u", "s", "e">>, <<"a", "p", "a", "r", "t", "m", "e", "n", "t">>,
      <<"f", "u", "r", "n", "i", "t", "u", "r", "e">>,
      <<"d", "e", "c", "o", "r", "a", "t", "i", "o", "n">>, <<"g", "a", "r", "d", "e", "n">>,
      <<"p", "l", "a", "n", "t">>, <<"f", "l", "o", "w", "e", "r">>, <<"p", "e", "t">>,
      <<"a", "n", "i", "m", "a", "l">>, <<"n", "a", "t", "u", "r", "e">>, <<"b", "o", "o", "k">>,
      <<"r", "e", "a", "d", "i", "n", "g">>, <<"w", "r", "i", "t", "i", "n", "g">>,
      <<"l", "a", "n", "g", "u", "a", "g", "e">>,
      <<"t", "r", "a", "n", "s", "l", "a", "t", "i", "o", "n">>, <<"n", "e", "w", "s">>,
      <<"j", "o", "u", "r", "n", "a", "l", "i", "s", "m">>, <<"m", "e", "d", "i", "a">>,
      <<"c", "o", "m", "m", "u", "n", "i", "c", "a", "t", "i", "o", "n">>,
      <<"c", "o", "n", "v", "e", "r", "s", "a", "t", "i", "o", "n">> }

\* Medical_AI_Assistant.py:415-420
medical_patterns ==
    { <<"w", "h", "a", "t", " ", "i", "s">>, <<"h", "o", "w", " ", "t", "o">>,
      <<"s", "y", "m", "p", "t", "o", "m", "s", " ", "o", "f">>,
      <<"t", "r", "e", "a", "t", "m", "e", "n", "t", " ", "f", "o", "r">>,
      <<"c", "u", "r", "e", " ", "f", "o", "r">>, <<"p", "r", "e", "v", "e", "n", "t">>,
      <<"a", "v", "o", "i", "d">>, <<"h", "o", "m", "e", " ", "r", "e", "m", "e", "d", "y">>,
      <<"n", "a", "t", "u", "r", "a", "l", " ", "t", "r", "e", "a", "t", "m", "e", "n", "t">>,
      <<"s", "h", "o", "u", "l", "d", " ", "i">>, <<"c", "a", "n", " ", "i">>,
      <<"i", "s", " ", "i", "t", " ", "s", "a", "f", "e">>,
      <<"s", "i", "d", "e", " ", "e", "f", "f", "e", "c", "t", "s">>,
      <<"c", "a", "u", "s", "e", "s", " ", "o", "f">>, <<"s", "i", "g", "n", "s", " ", "o", "f">>,
      <<"w", "a", "r", "n", "i", "n", "g", " ", "s", "i", "g", "n", "s">>,
      <<"w", "h", "e", "n", " ", "t", "o", " ", "s", "e", "e">> }

MatchesAny(query_lower, keywords) ==
    \E keyword \in keywords : StrContains(query_lower, keyword)

\* is_medical_query (Medical_AI_Assistant.py:396-424)
IsMedicalQuery(query) ==
    LET query_lower == QueryLower(query)
        has_medical_keywords == MatchesAny(query_lower, chatbot_medical_keywords)
        has_non_medical_keywords == MatchesAny(query_lower, non_medical_keywords)
        has_medical_patterns == MatchesAny(query_lower, medical_patterns)
    IN  IF has_non_medical_keywords /\ ~has_medical_keywords THEN FALSE
        ELSE IF has_medical_keywords THEN TRUE
        ELSE has_medical_patterns

\* validate_query (retriever.py:171-206) on any ASCII query.
ValidateQueryLower(query) ==
    LET query_lower == QueryLower(query)
        has_medical_keywords == MatchesAny(query_lower, medical_keywords)
        has_inappropriate == MatchesAny(query_lower, inappropriate_patterns)
    IN  [is_valid |-> has_medical_keywords /\ ~has_inappropriate,
         has_medical_keywords |-> has_medical_keywords,
         has_inappropriate |-> has_inappropriate,
         suggested_action |-> IF has_medical_keywords /\ ~has_inappropriate
                              THEN "proceed" ELSE "refuse"]

\* The words and phrases queries are made of.
QueryUnits ==
    { <<"F", "e", "v", "e", "r">>, <<"d", "o", "c", "t", "o", "r">>, <<"m", "a", "t", "h">>,
      <<"W", "h", "a", "t", " ", "i", "s">>, <<"h", "i">>, <<"B", "u", "r", "n">> }

Space == <<" ">>

\* Queries of one or two units, and the two queries of the specification's
\* examples.
WeatherQuery == <<"W", "h", "a", "t", " ", "i", "s", " ", "t", "h", "e", " ", "w", "e", "a", "t", "h", "e", "r", " ", "t", "o", "d", "a", "y", "?">>

HeadacheQuery == <<"h", "o", "m", "e", " ", "r", "e", "m", "e", "d", "y", " ", "f", "o", "r", " ", "h", "e", "a", "d", "a", "c", "h", "e">>

GateQueries ==
    QueryUnits
    \cup {a \o Space \o b : a \in QueryUnits, b \in QueryUnits}
    \cup {WeatherQuery, HeadacheQuery}

gateFrame == <<disk, builderVars, retrieverVars, r_pc, indexerVars, e_pc, e_local>>

\* The user types a query.
TypeQuery(query) ==
    /\ th' = query
    /\ UNCHANGED appVars
    /\ UNCHANGED <<gateFrame, out>>

\* retriever.validate_query(query)
CallValidate ==
    /\ out' = [op |-> "validate_query", query |-> th, res |-> ValidateQueryLower(th)]
    /\ UNCHANGED appVars
    /\ UNCHANGED <<gateFrame, th>>

\* chatbot.is_medical_query(query)
CallIsMedicalQuery ==
    /\ out' = [op |-> "is_medical_query", query |-> th, res |-> IsMedicalQuery(th)]
    /\ UNCHANGED appVars
    /\ UNCHANGED <<gateFrame, th>>

InitGate ==
    /\ disk = EmptyDir
    /\ conversation_history = <<>>
    /\ model_name = "gemini-1.5-flash"
    /\ b_pc = [at |-> "new", runs |-> 0]
    /\ b_chunks = <<>>
    /\ InitRetriever
    /\ InitIndexer
    /\ out = NoCall
    /\ th \in GateQueries

NextGate ==
    \/ \E query \in GateQueries : TypeQuery(query)
    \/ CallValidate
    \/ CallIsMedicalQuery

SpecGate == InitGate /\ [][NextGate]_vars

\* The decision rule: reject on an exclusion keyword without a domain
\* keyword, else accept on a domain keyword, else accept exactly on a
\* question pattern.
Decision(domain, exclusion, pattern) ==
    IF exclusion /\ ~domain THEN FALSE
    ELSE IF domain THEN TRUE
    ELSE pattern

\* C13: each gate's verdict on a query is the decision rule applied to the
\* case-insensitive substring matches of the query against the gate's domain
\* keywords, its exclusion keywords and the question patterns.
C13_GateFollowsDecisionRule ==
    /\ out.op = "validate_query" =>
           out.res.is_valid =
               Decision(MatchesAny(QueryLower(out.query), medical_keywords),
                        MatchesAny(QueryLower(out.query), inappropriate_patterns),
                        MatchesAny(QueryLower(out.query), medical_patterns))
    /\ out.op = "is_medical_query" =>
           out.res =
               Decision(MatchesAny(QueryLower(out.query), chatbot_medical_keywords),
                        MatchesAny(QueryLower(out.query), non_medical_keywords),
                        MatchesAny(QueryLower(out.query), medical_patterns))

\* C14: a gate given "What is the weather today?" rejects it.
C14_WeatherQueryRejected ==
    /\ (out.op = "is_medical_query" /\ out.query = WeatherQuery) => out.res = FALSE
    /\ (out.op = "validate_query" /\ out.query = WeatherQuery)
           => out.res.is_valid = FALSE

\* C15: a gate given "home remedy for headache" accepts it.
C15_HeadacheQueryAccepted ==
    /\ (out.op = "validate_query" /\ out.query = HeadacheQuery)
           => out.res.is_valid = TRUE
    /\ (out.op = "is_medical_query" /\ out.query = HeadacheQuery) => out.res = TRUE

-----------------------------------------------------------------------------
(* DocumentProcessor.create_chunks (src/src/ingestion.py:61-120).  A text is *)
(* the sequence of its words, the empty string is <<>>, and a + " " + b is  *)
(* the concatenation of two word sequences.  Word w of sentence s of the    *)
(* input is <<s, w>>, so the words of an input are all different.           *)

MaxSentences == 3   \* most non-empty sentences in a text
MaxWords     == 3   \* most words in a sentence
MaxChunkSize == 3   \* largest chunk_size
MaxOverlap   == 2   \* largest overlap_size

Sentence(s, n) == [w \in 1..n |-> <<s, w>>]

\* re.split(r'(?<=[.!?])\s+', text) (ingestion.py:73) for a text whose
\* sentences have the given word counts: the split gives an empty last piece
\* for a text that is empty or ends in white space, and no other empty piece.
SplitSentences(lens) == [s \in 1..Len(lens) |-> Sentence(s, lens[s])]

SentenceLengths ==
    LET full == UNION {[1..n -> 1..MaxWords] : n \in 0..MaxSentences}
    IN  (full \ {<<>>}) \cup {Append(l, 0) : l \in full}

\* count_tokens (ingestion.py:57-59): every word is one token.
CountTokens(text) == Len(text)

\* words[-n:] in Python; words[-0:] is the whole list.
PyLast(words, n) ==
    IF n = 0 \/ n >= Len(words) THEN words
    ELSE SubSeq(words, Len(words) - n + 1, Len(words))

\* An overlap taken from the start of the chunk, words[:n]: not what the
\* code does.
GetOverlapTextFromStart(text, overlap_size) ==
    IF Len(text) > overlap_size THEN SubSeq(text, 1, overlap_size) ELSE <<>>

\* _get_overlap_text (ingestion.py:116-120)
GetOverlapText(text, overlap_size) ==
    LET words == text
        overlap_words == IF Len(words) > overlap_size
                         THEN PyLast(words, overlap_size) ELSE <<>>
    IN  overlap_words

\* test_chunk (ingestion.py:84)
TestChunk(current_chunk, sentence) ==
    IF current_chunk # <<>> THEN current_chunk \o sentence ELSE sentence

\* Numbering that does not advance: not what the code does.
NextChunkIdStuck(chunk_id) == chunk_id

\* chunk_id += 1 (ingestion.py:96)
NextChunkId(chunk_id) == chunk_id + 1

\* The dict appended at ingestion.py:89-95 and 106-112.
ChunkRecord(source, chunk_id, current_chunk) ==
    [chunk_id |-> <<source, chunk_id>>, source |-> source, text |-> current_chunk,
     token_count |-> CountTokens(current_chunk), chunk_index |-> chunk_id]

\* A last chunk that is emitted only when it holds more than one word: not
\* what the code does.
FinalFlushLong(current_chunk) == Len(current_chunk) > 1

\* if current_chunk.strip() (ingestion.py:105)
FinalFlush(current_chunk) == current_chunk # <<>>

chunkerFrame == <<disk, builderVars, retrieverVars, r_pc, indexerVars, e_pc,
                  e_local>>

\* create_chunks(text, source) is called on a DocumentProcessor(chunk_size,
\* overlap_size): ingestion.py:72-76.  The call keeps nothing on the
\* processor, so a behaviour is one call on a fresh processor.
BeginCreateChunks(lens, chunk_size, overlap_size) ==
    /\ th = Idle
    /\ out = NoCall
    /\ th' = [at |-> "loop", sentences |-> SplitSentences(lens), i |-> 1,
              chunk_size |-> chunk_size, overlap_size |-> overlap_size,
              source |-> "doc", chunks |-> <<>>, current_chunk |-> <<>>,
              chunk_id |-> 0]
    /\ out' = NoCall
    /\ UNCHANGED appVars
    /\ UNCHANGED chunkerFrame

\* One iteration of the loop over the sentences (ingestion.py:78-102).
CreateChunksStep ==
    /\ th # Idle
    /\ th.i <= Len(th.sentences)
    /\ LET sentence == th.sentences[th.i]
           test_chunk == TestChunk(th.current_chunk, sentence)
           token_count == CountTokens(test_chunk)
           overlap_text == GetOverlapText(th.current_chunk, th.overlap_size)
       IN  IF sentence = <<>>
           THEN th' = [th EXCEPT !.i = @ + 1]
           ELSE IF token_count > th.chunk_size /\ th.current_chunk # <<>>
           THEN th' = [th EXCEPT
                         !.i = @ + 1,
                         !.chunks = Append(@, ChunkRecord(th.source, th.chunk_id,
                                                          th.current_chunk)),
                         !.chunk_id = NextChunkId(@),
                         !.current_chunk = IF overlap_text # <<>>
                                           THEN overlap_text \o sentence
                                           ELSE sentence]
           ELSE th' = [th EXCEPT !.i = @ + 1, !.current_chunk = test_chunk]
    /\ UNCHANGED appVars
    /\ UNCHANGED <<chunkerFrame, out>>

\* After the loop: the last chunk and the return (ingestion.py:104-114).
CreateChunksReturn ==
    /\ th # Idle
    /\ th.i > Len(th.sentences)
    /\ out' = [op |-> "create_chunks", sentences |-> th.sentences,
               chunk_size |-> th.chunk_size, overlap_size |-> th.overlap_size,
               source |-> th.source,
               res |-> IF FinalFlush(th.current_chunk)
                       THEN Append(th.chunks,
                                   ChunkRecord(th.source, th.chunk_id,
                                               th.current_chunk))
                       ELSE th.chunks]
    /\ th' = Idle
    /\ UNCHANGED appVars
    /\ UNCHANGED chunkerFrame

InitChunker ==
    /\ disk = EmptyDir
    /\ conversation_history = <<>>
    /\ model_name = "gemini-1.5-flash"
    /\ b_pc = [at |-> "new", runs |-> 0]
    /\ b_chunks = <<>>
    /\ InitRetriever
    /\ InitIndexer
    /\ out = NoCall
    /\ th = Idle

NextChunker ==
    \/ \E lens \in SentenceLengths, chunk_size \in 1..MaxChunkSize,
          overlap_size \in 0..MaxOverlap :
           BeginCreateChunks(lens, chunk_size, overlap_size)
    \/ CreateChunksStep
    \/ CreateChunksReturn

SpecChunker == InitChunker /\ [][NextChunker]_vars

Returned == out.op = "create_chunks"

\* C16: the chunks create_chunks returns carry chunk_index 0, 1, ..., n-1 in
\* order, and each chunk_id is made of the source and that chunk_index.
C16_ChunkIndexContiguous ==
    Returned =>
        \A c \in 1..Len(out.res) :
            /\ out.res[c].chunk_index = c - 1
            /\ out.res[c].chunk_id = <<out.source, out.res[c].chunk_index>>
            /\ out.res[c].source = out.source

\* A call has returned three chunks.
C16_Witness == Returned /\ Len(out.res) = MaxSentences

\* The sentence occurs whole, its words adjacent and in order, in the text.
WholeIn(sentence, text) ==
    \E off \in 0..(Len(text) - Len(sentence)) :
        SubSeq(text, off + 1, off + Len(sentence)) = sentence

\* C17: with 0 < overlap_size < chunk_size, a returned chunk has
\* token_count <= chunk_size unless it holds a sentence that alone has more
\* than chunk_size tokens.
C17_TokenCountWithinChunkSize ==
    (Returned /\ out.overlap_size > 0 /\ out.overlap_size < out.chunk_size) =>
        \A c \in 1..Len(out.res) :
            \/ out.res[c].token_count <= out.chunk_size
            \/ \E s \in 1..Len(out.sentences) :
                   /\ CountTokens(out.sentences[s]) > out.chunk_size
                   /\ WholeIn(out.sentences[s], out.res[c].text)

\* C18: with 0 < overlap_size < chunk_size, the last overlap_size words of a
\* returned chunk (all its words when it has fewer) are the first words of
\* the next.
C18_OverlapIsPrefixOfNext ==
    (Returned /\ out.overlap_size > 0 /\ out.overlap_size < out.chunk_size) =>
        \A c \in 1..(Len(out.res) - 1) :
            LET last == PyLast(out.res[c].text, out.overlap_size)
            IN  /\ Len(last) <= Len(out.res[c + 1].text)
                /\ SubSeq(out.res[c + 1].text, 1, Len(last)) = last

RECURSIVE Concat(_, _, _)
Concat(sentences, a, b) ==
    IF a > b THEN <<>> ELSE sentences[a] \o Concat(sentences, a + 1, b)

IsSuffix(a, b) ==
    Len(a) <= Len(b) /\ SubSeq(b, Len(b) - Len(a) + 1, Len(b)) = a

\* The text is words carried over from the end of the chunk before it (none
\* for the first chunk), followed by one or more whole sentences that are
\* neighbours in the input.
OverlapThenWholeSentences(text, before, sentences) ==
    \E a \in 1..Len(sentences), b \in 1..Len(sentences) :
        /\ a <= b
        /\ sentences[a] # <<>>
        /\ IsSuffix(Concat(sentences, a, b), text)
        /\ IsSuffix(SubSeq(text, 1, Len(text) - Len(Concat(sentences, a, b))),
                    before)

\* C19: no sentence is split.  Every returned chunk is the overlap words
\* followed by whole sentences, so it ends where a sentence ends and its own
\* part starts where a sentence starts; and a sentence with more tokens than
\* chunk_size is whole inside one chunk.
C19_SentencesNeverSplit ==
    Returned =>
        /\ \A c \in 1..Len(out.res) :
               OverlapThenWholeSentences(
                   out.res[c].text,
                   IF c = 1 THEN <<>> ELSE out.res[c - 1].text,
                   out.sentences)
        /\ \A s \in 1..Len(out.sentences) :
               CountTokens(out.sentences[s]) > out.chunk_size =>
                   \E c \in 1..Len(out.res) :
                       WholeIn(out.sentences[s], out.res[c].text)

\* A sentence longer than chunk_size was returned inside a chunk that comes
\* after another chunk and starts with words carried over from it.
C19_Witness ==
    /\ Returned
    /\ out.overlap_size > 0
    /\ \E c \in 2..Len(out.res), s \in 1..Len(out.sentences) :
           /\ CountTokens(out.sentences[s]) > out.chunk_size
           /\ WholeIn(out.sentences[s], out.res[c].text)
           /\ out.res[c].text[1] = out.res[c - 1].text[Len(out.res[c - 1].text)]

\* The first returned chunk that holds the sentence whole (0 when none does).
FirstChunkWith(sentence, chunks) ==
    IF \E c \in 1..Len(chunks) : WholeIn(sentence, chunks[c].text)
    THEN CHOOSE c \in 1..Len(chunks) :
             /\ WholeIn(sentence, chunks[c].text)
             /\ \A d \in 1..(c - 1) : ~WholeIn(sentence, chunks[d].text)
    ELSE 0

\* C20: every non-empty sentence is whole in some returned chunk, a later
\* sentence does not first appear in an earlier chunk than an earlier
\* sentence, the last sentence is in the last chunk whatever its size, and
\* no returned chunk is empty.
C20_EverySentenceEmitted ==
    Returned =>
        LET S == {s \in 1..Len(out.sentences) : out.sentences[s] # <<>>} IN
        /\ \A s \in S : FirstChunkWith(out.sentences[s], out.res) > 0
        /\ \A s \in S, t \in S :
               s < t => FirstChunkWith(out.sentences[s], out.res)
                            <= FirstChunkWith(out.sentences[t], out.res)
        /\ \A s \in S :
               (\A t \in S : t <= s) =>
                   WholeIn(out.sentences[s], out.res[Len(out.res)].text)
        /\ \A c \in 1..Len(out.res) : out.res[c].text # <<>>

\* The last chunk returned is below chunk_size and is not the only chunk.
C20_Witness ==
    /\ Returned
    /\ Len(out.res) > 1
    /\ out.res[Len(out.res)].token_count < out.chunk_size

(***************************************************************************)
(* create_chunks on texts of characters, where white space is there to be  *)
(* stripped, split on and counted.                                         *)
(***************************************************************************)
MaxTextLen == 6

TextChars == {"a", ".", " "}

SourceTexts == UNION {[1..n -> TextChars] : n \in 0..MaxTextLen}

NonSpaceAt(s) == {i \in 1..Len(s) : s[i] # " "}

\* str.strip()
PyStrip(s) ==
    LET at == NonSpaceAt(s) IN
    IF at = {} THEN <<>>
    ELSE SubSeq(s, CHOOSE i \in at : \A j \in at : i <= j,
                   CHOOSE i \in at : \A j \in at : i >= j)

\* str.split(): the maximal runs of characters that are not white space.
RECURSIVE PySplit(_)
PySplit(s) ==
    LET at == NonSpaceAt(s) IN
    IF at = {} THEN <<>>
    ELSE LET first == CHOOSE i \in at : \A j \in at : i <= j
             ends == {i \in first..Len(s) : i = Len(s) \/ s[i + 1] = " "}
             last == CHOOSE i \in ends : \A j \in ends : i <= j
         IN  <<SubSeq(s, first, last)>> \o PySplit(SubSeq(s, last + 1, Len(s)))

\* " ".join(words)
RECURSIVE PyJoin(_)
PyJoin(words) ==
    IF words = <<>> THEN <<>>
    ELSE IF Len(words) = 1 THEN words[1]
    ELSE words[1] \o <<" ">> \o PyJoin(Tail(words))

\* re.split(r'(?<=[.!?])\s+', text) (ingestion.py:73): the text is cut at
\* every run of white space that follows a sentence mark; the run is dropped.
RECURSIVE ReSplit(_)
ReSplit(text) ==
    LET cuts == {i \in 2..Len(text) : text[i] = " " /\ text[i - 1] = "."} IN
    IF cuts = {} THEN <<text>>
    ELSE LET cut == CHOOSE i \in cuts : \A j \in cuts : i <= j
             after == {i \in cut..Len(text) : text[i] # " "}
             next == IF after = {} THEN Len(text) + 1
                     ELSE CHOOSE i \in after : \A j \in after : i <= j
         IN  <<SubSeq(text, 1, cut - 1)>> \o ReSplit(SubSeq(text, next, Len(text)))

\* count_tokens (ingestion.py:57-59).  The encoding joins a space to the
\* word that follows it; a space that no word follows is a token of its own.
count_tokens(text) ==
    Len(PySplit(text))
    + Cardinality({i \in 1..Len(text) :
                      text[i] = " " /\ (i = Len(text) \/ text[i + 1] = " ")})

\* _get_overlap_text (ingestion.py:116-120) on a text of characters
get_overlap_text(text, overlap_size) ==
    LET words == PySplit(text)
        overlap_words == IF Len(words) > overlap_size
                         THEN PyLast(words, overlap_size) ELSE <<>>
    IN  PyJoin(overlap_words)

\* A sentence left as the split gave it: not what the code does.
SentenceUnstripped(sentence) == sentence

\* sentence = sentence.strip() (ingestion.py:79)
SentenceStrip(sentence) == PyStrip(sentence)

\* The dict appended at ingestion.py:89-95 and 106-112, with the text
\* stripped and the count taken of the chunk as it was built.
chunk_dict(source, chunk_id, current_chunk) ==
    [chunk_id |-> <<source, chunk_id>>, source |-> source,
     text |-> PyStrip(current_chunk),
     token_count |-> count_tokens(current_chunk), chunk_index |-> chunk_id]

\* The loop and the last chunk of create_chunks (ingestion.py:78-114).
RECURSIVE create_chunks_from(_, _, _, _, _, _, _, _)
create_chunks_from(sentences, i, chunk_size, overlap_size, source, chunks, current_chunk, chunk_id) ==
    IF i > Len(sentences)
    THEN IF PyStrip(current_chunk) # <<>>
         THEN Append(chunks, chunk_dict(source, chunk_id, current_chunk))
         ELSE chunks
    ELSE LET sentence == SentenceStrip(sentences[i])
             test_chunk == IF current_chunk # <<>>
                           THEN current_chunk \o <<" ">> \o sentence
                           ELSE sentence
             token_count == count_tokens(test_chunk)
             overlap_text == get_overlap_text(current_chunk, overlap_size)
         IN  IF sentence = <<>>
             THEN create_chunks_from(sentences, i + 1, chunk_size, overlap_size,
                                     source, chunks, current_chunk, chunk_id)
             ELSE IF token_count > chunk_size /\ current_chunk # <<>>
             THEN create_chunks_from(
                      sentences, i + 1, chunk_size, overlap_size, source,
                      Append(chunks, chunk_dict(source, chunk_id, current_chunk)),
                      IF overlap_text # <<>>
                      THEN overlap_text \o <<" ">> \o sentence ELSE sentence,
                      chunk_id + 1)
             ELSE create_chunks_from(sentences, i + 1, chunk_size, overlap_size,
                                     source, chunks, test_chunk, chunk_id)

\* DocumentProcessor(chunk_size, overlap_size).create_chunks(text, "doc") as
\* one call (ingestion.py:61-114).
CallCreateChunks ==
    /\ th # Idle
    /\ out' = [op |-> "create_chunks", text |-> th.text,
               chunk_size |-> th.chunk_size, overlap_size |-> th.overlap_size,
               res |-> create_chunks_from(ReSplit(th.text), 1, th.chunk_size,
                                          th.overlap_size, "doc", <<>>, <<>>, 0)]
    /\ th' = Idle
    /\ UNCHANGED appVars
    /\ UNCHANGED chunkerFrame

\* A processor of some sizes is about to be given some text.
InitTokens ==
    /\ disk = EmptyDir
    /\ conversation_history = <<>>
    /\ model_name = "gemini-1.5-flash"
    /\ b_pc = [at |-> "new", runs |-> 0]
    /\ b_chunks = <<>>
    /\ InitRetriever
    /\ InitIndexer
    /\ out = NoCall
    /\ th \in [text : SourceTexts, chunk_size : 1..MaxChunkSize,
                overlap_size : 0..MaxOverlap]

NextTokens == CallCreateChunks

SpecTokens == InitTokens /\ [][NextTokens]_vars

\* C21: in every chunk that create_chunks emits, token_count is the
\* tokenizer's count of exactly the string stored in that chunk's text.
C21_TokenCountIsCountOfText ==
    (out.op = "create_chunks" /\ "text" \in DOMAIN out)
        => \A c \in 1..Len(out.res) :
               out.res[c].token_count = count_tokens(out.res[c].text)

\* A text with white space at both ends gave two chunks or more.
C21_Witness ==
    /\ out.op = "create_chunks" /\ "text" \in DOMAIN out
    /\ Len(out.text) > 1
    /\ out.text[1] = " " /\ out.text[Len(out.text)] = " "
    /\ Len(out.res) >= 2

(***************************************************************************)
(* process_directory over files of bytes.  A byte is a character of the    *)
(* texts above or the byte 0xFF, which no UTF-8 text holds; a file may     *)
(* also be one that open() refuses (no permission, a directory named       *)
(* x.txt).                                                                 *)
(***************************************************************************)
MaxFiles == 3

FileBytes == {<<"a", ".">>, <<"a", " ", " ", "a">>, <<"a", "\\xff", ".", " ", "a">>}

DirFiles == [readable : BOOLEAN, bytes : FileBytes]

Listings == UNION {[1..n -> DirFiles] : n \in 1..MaxFiles}

\* open(file_path, 'r', encoding='utf-8') and f.read() (ingestion.py:133-134)
ReadUtf8(file) ==
    IF ~file.readable THEN Raise("OSError")
    ELSE IF \E i \in 1..Len(file.bytes) : file.bytes[i] = "\\xff"
    THEN Raise("UnicodeDecodeError")
    ELSE Ok(file.bytes)

\* open(file_path, 'r', encoding='latin-1') and f.read() (ingestion.py:136-137):
\* every byte is a character, 0xFF is y with diaeresis.
ReadLatin1(file) ==
    IF ~file.readable THEN Raise("OSError")
    ELSE Ok([i \in 1..Len(file.bytes) |->
                IF file.bytes[i] = "\\xff" THEN "y" ELSE file.bytes[i]])

\* clean_text (ingestion.py:29-55): on these characters, runs of white space
\* become one space and the ends are stripped.
clean_text(text) == PyJoin(PySplit(text))

\* process_document (ingestion.py:122-148) with the processor of main,
\* scaled down: DocumentProcessor(chunk_size, overlap_size).
process_document(file, source) ==
    LET first == ReadUtf8(file)
        content == IF first.kind = "raise" /\ first.value = "UnicodeDecodeError"
                   THEN ReadLatin1(file) ELSE first
    IN  IF content.kind = "raise" THEN content
        ELSE Ok(create_chunks_from(ReSplit(clean_text(content.value)), 1,
                                   MaxChunkSize, 1, source, <<>>, <<>>, 0))

\* One turn of the loop of process_directory (ingestion.py:162-166); an
\* exception of process_document leaves the call.
ProcessDirectoryStep ==
    /\ th # Idle
    /\ th.at = "glob"
    /\ th.i <= Len(th.files)
    /\ LET chunks == process_document(th.files[th.i], th.i) IN
       IF chunks.kind = "raise"
       THEN /\ out' = [op |-> "process_directory", files |-> th.files,
                       res |-> chunks]
            /\ th' = Idle
       ELSE /\ th' = [th EXCEPT !.i = @ + 1,
                                !.all_chunks = @ \o chunks.value]
            /\ UNCHANGED out
    /\ UNCHANGED appVars
    /\ UNCHANGED chunkerFrame

\* return all_chunks (ingestion.py:168)
ProcessDirectoryReturn ==
    /\ th # Idle
    /\ th.at = "glob"
    /\ th.i > Len(th.files)
    /\ out' = [op |-> "process_directory", files |-> th.files,
               res |-> Ok(th.all_chunks)]
    /\ th' = Idle
    /\ UNCHANGED appVars
    /\ UNCHANGED chunkerFrame

\* process_directory has been called on a directory: all_chunks = []
\* (ingestion.py:160).
InitIngest ==
    /\ disk = EmptyDir
    /\ conversation_history = <<>>
    /\ model_name = "gemini-1.5-flash"
    /\ b_pc = [at |-> "new", runs |-> 0]
    /\ b_chunks = <<>>
    /\ InitRetriever
    /\ InitIndexer
    /\ out = NoCall
    /\ th \in {[at |-> "glob", files |-> l, i |-> 1, all_chunks |-> <<>>] :
                  l \in Listings}

NextIngest == ProcessDirectoryStep \/ ProcessDirectoryReturn

SpecIngest == InitIngest /\ [][NextIngest]_vars

\* What the files that can be opened give, in the order of the listing.
RECURSIVE ChunksOfReadable(_, _)
ChunksOfReadable(files, i) ==
    IF i > Len(files) THEN <<>>
    ELSE (IF files[i].readable THEN process_document(files[i], i).value ELSE <<>>)
         \o ChunksOfReadable(files, i + 1)

\* C22: process_directory completes whatever the files are, and returns the
\* chunks of every file that can be read; a file that cannot is skipped.
C22_UnreadableFileSkipped ==
    out.op = "process_directory"
        => /\ out.res.kind = "return"
           /\ out.res.value = ChunksOfReadable(out.files, 1)

\* embed_index.main alone, run after run over a directory nobody reads.
NextBuild == Builder

SpecBuild == InitPersist /\ [][NextBuild]_vars

\* C23: from the moment embed_index.main has loaded zero chunks it writes
\* no artifact, and its run goes from create_embeddings to its failure and
\* nowhere else: no index of zero vectors is built or saved.
C23_EmptyBuildWritesNothing ==
    [][(b_pc.runs > 0 /\ b_chunks = <<>>)
          => /\ disk' = disk
             /\ (b_chunks' = <<>>
                   => b_pc'.at \in {"create_embeddings", "failed"})]_vars

\* main has failed at create_embeddings on zero chunks.
C23_Witness == b_pc.runs > 0 /\ b_chunks = <<>> /\ b_pc.at = "failed"

\* One retriever, loaded and loaded again from directories that load, and
\* searched in between.
NextQueries ==
    \/ \E d \in ServeDirs : CallLoadIndex(d)
    \/ \E qv \in QueryVecs, k \in 1..MaxK, ms \in ServeMinScores :
           CallSearch(qv, k, ms)

SpecQueries == InitSearch /\ [][NextQueries]_vars

\* C24: on a loaded retriever a search whose query vector has another
\* dimension than the index raises and gives no results, a search whose
\* query vector has the index's dimension returns, and neither changes the
\* retriever: it stays loaded as it was.
C24_DimensionMismatchFailsOneQuery ==
    [][(r_is_loaded /\ r_model # None /\ out'.op = "search")
          => /\ UNCHANGED retrieverVars
             /\ IF Len(out'.qv) # r_index.d
                THEN out'.res = Raise("AssertionError")
                ELSE out'.res.kind = "return"]_vars

\* A search on a loaded retriever has failed on the dimension.
C24_Witness ==
    /\ out.op = "search"
    /\ r_is_loaded
    /\ Len(out.qv) # r_index.d
    /\ out.res = Raise("AssertionError")

(***************************************************************************)
(* MedicalQA (src/src/qa.py): generate_response over the retriever and the *)
(* language model.  A text of the assistant is a sequence of pieces; the   *)
(* disclaimer is one piece.                                                *)
(***************************************************************************)
\* qa.py:70-73
out_of_scope_keywords ==
    { <<"w", "e", "a", "t", "h", "e", "r">>,
      <<"p", "o", "l", "i", "t", "i", "c", "s">>,
      <<"s", "p", "o", "r", "t", "s">>,
      <<"e", "n", "t", "e", "r", "t", "a", "i", "n", "m", "e", "n", "t">>,
      <<"c", "o", "o", "k", "i", "n", "g", " ", "r", "e", "c", "i", "p", "e">>,
      <<"t", "r", "a", "v", "e", "l">>,
      <<"s", "h", "o", "p", "p", "i", "n", "g">>,
      <<"t", "e", "c", "h", "n", "o", "l", "o", "g", "y">>,
      <<"p", "r", "o", "g", "r", "a", "m", "m", "i", "n", "g">>,
      <<"f", "i", "n", "a", "n", "c", "e">> }

\* is_out_of_scope (qa.py:60-76)
IsOutOfScope(query) == MatchesAny(QueryLower(query), out_of_scope_keywords)

\* MedicalQA.is_medical_query (qa.py:47-58)
QaIsMedicalQuery(query) == ValidateQueryLower(query).is_valid

\* self.disclaimer (qa.py:30)
Disclaimer == <<"disclaimer">>

\* The refusals and the answer without sources (qa.py:113-119, 123-129,
\* 135-140, 183-189).
OutOfScopeRefusal ==
    [response |-> <<"outside my knowledge base">>, sources |-> <<>>,
     disclaimer |-> Disclaimer, is_out_of_scope |-> TRUE, confidence |-> 0]

NotMedicalRefusal ==
    [response |-> <<"only general health information">>, sources |-> <<>>,
     disclaimer |-> Disclaimer, is_medical |-> FALSE, confidence |-> 0]

NoInformation ==
    [response |-> <<"no specific information">>, sources |-> <<>>,
     disclaimer |-> Disclaimer, confidence |-> 0]

ErrorResponse(e) ==
    [response |-> <<"encountered an error">>, sources |-> <<>>,
     disclaimer |-> Disclaimer, error |-> e, confidence |-> 0]

\* What the chat completion can do: answer with or without the disclaimer
\* in its text, or raise.
LlmOutcomes ==
    {Ok(<<"answer">>), Ok(<<"answer", "disclaimer">>), Raise("APIError")}

\* An empty result that is taken for a hit list: not what the code does.
NotChunksNever(chunks) == FALSE

\* if not chunks (qa.py:134)
NotChunks(chunks) == chunks = <<>>

\* max(chunk.get('similarity_score', 0) for chunk in chunks) (qa.py:178)
MaxScore(chunks) ==
    CHOOSE s \in {chunks[i].similarity_score : i \in 1..Len(chunks)} :
        \A i \in 1..Len(chunks) : chunks[i].similarity_score <= s

\* The try block of generate_response (qa.py:152-189).
Answer(chunks, llm) ==
    IF llm.kind = "raise" THEN ErrorResponse(llm.value)
    ELSE IF chunks = <<>> THEN ErrorResponse("ValueError")
    ELSE LET answer == IF ~StrContains(llm.value, Disclaimer)
                       THEN Disclaimer \o <<"\n\n">> \o llm.value
                       ELSE llm.value
         IN  [response |-> answer,
              sources |-> [i \in 1..Len(chunks) |-> chunks[i].source],
              chunks |-> chunks, disclaimer |-> Disclaimer,
              confidence |-> MaxScore(chunks), is_medical |-> TRUE,
              is_out_of_scope |-> FALSE]

\* min_score=0.1 (qa.py:132)
QaMinScore == 10

\* generate_response with the relevance gate asked first: not what the
\* code does.
GenerateResponseGateFirst(index, chunks_data, is_loaded, model, query, qv, max_chunks, llm) ==
    IF ~QaIsMedicalQuery(query)
    THEN [calls |-> <<"is_medical_query">>, search |-> NoCall,
          res |-> Ok(NotMedicalRefusal)]
    ELSE IF IsOutOfScope(query)
    THEN [calls |-> <<"is_medical_query", "is_out_of_scope">>, search |-> NoCall,
          res |-> Ok(OutOfScopeRefusal)]
    ELSE LET found == RetrieverSearch(index, chunks_data, is_loaded, model, qv,
                                      max_chunks, QaMinScore)
         IN  IF found.kind = "raise"
             THEN [calls |-> <<"is_medical_query", "is_out_of_scope", "search">>,
                   search |-> found, res |-> found]
             ELSE IF NotChunks(found.value)
             THEN [calls |-> <<"is_medical_query", "is_out_of_scope", "search">>,
                   search |-> found, res |-> Ok(NoInformation)]
             ELSE [calls |-> <<"is_medical_query", "is_out_of_scope", "search",
                               "chat.completions.create">>,
                   search |-> found, res |-> Ok(Answer(found.value, llm))]

\* generate_response (qa.py:101-189) on a MedicalQA whose retriever has these
\* fields; qv is what the retriever's model gives for the query and llm what
\* the chat completion does if it is called.  calls lists, in order, what was
\* called; search is what retriever.search gave, if it was called.
GenerateResponse(index, chunks_data, is_loaded, model, query, qv, max_chunks, llm) ==
    IF IsOutOfScope(query)
    THEN [calls |-> <<"is_out_of_scope">>, search |-> NoCall,
          res |-> Ok(OutOfScopeRefusal)]
    ELSE IF ~QaIsMedicalQuery(query)
    THEN [calls |-> <<"is_out_of_scope", "is_medical_query">>, search |-> NoCall,
          res |-> Ok(NotMedicalRefusal)]
    ELSE LET found == RetrieverSearch(index, chunks_data, is_loaded, model, qv,
                                      max_chunks, QaMinScore)
         IN  IF found.kind = "raise"
             THEN [calls |-> <<"is_out_of_scope", "is_medical_query", "search">>,
                   search |-> found, res |-> found]
             ELSE IF NotChunks(found.value)
             THEN [calls |-> <<"is_out_of_scope", "is_medical_query", "search">>,
                   search |-> found, res |-> Ok(NoInformation)]
             ELSE [calls |-> <<"is_out_of_scope", "is_medical_query", "search",
                               "chat.completions.create">>,
                   search |-> found, res |-> Ok(Answer(found.value, llm))]

qaFrame == <<disk, builderVars, r_pc, indexerVars, e_pc, e_local, th, model_name>>

\* load_retriever (qa.py:43-45), as main calls it: on a retriever that is
\* not loaded yet.
LoadRetriever(d) ==
    LET after == LoadIndex(r_index, r_chunks, r_dimension, r_is_loaded, d) IN
    /\ ~r_is_loaded
    /\ r_index' = after.index
    /\ r_chunks' = after.chunks
    /\ r_dimension' = after.dimension
    /\ r_is_loaded' = after.is_loaded
    /\ out' = [op |-> "load_retriever", dir |-> d, res |-> after.ret]
    /\ UNCHANGED <<qaFrame, r_model, conversation_history>>

\* The user's question is answered by generate_response.
CallGenerateResponse ==
    LET done == GenerateResponse(r_index, r_chunks, r_is_loaded, r_model,
                                 th.query, th.qv, th.max_chunks, th.llm)
    IN  /\ th # Idle
        /\ out' = [op |-> "generate_response", query |-> th.query, qv |-> th.qv,
                   max_chunks |-> th.max_chunks, llm |-> th.llm,
                   calls |-> done.calls, search |-> done.search, res |-> done.res]
        /\ th' = Idle
        /\ UNCHANGED <<disk, builderVars, r_pc, indexerVars, e_pc, e_local,
                       model_name, retrieverVars, conversation_history>>

\* Queries that take every way through generate_response.
QaQueries ==
    { <<"F", "e", "v", "e", "r">>, <<"h", "i">>,
      <<"F", "e", "v", "e", "r", " ", "d", "o", "c", "t", "o", "r">>,
      <<"F", "e", "v", "e", "r", " ", "w", "e", "a", "t", "h", "e", "r">>,
      WeatherQuery }

\* A MedicalQA as constructed (qa.py:24-27), its retriever not loaded, and a
\* user with a question; the model and the chat completion will do with it
\* what qv and llm say.
InitQA ==
    /\ disk = EmptyDir
    /\ conversation_history = <<>>
    /\ model_name = "gemini-1.5-flash"
    /\ b_pc = [at |-> "new", runs |-> 0]
    /\ b_chunks = <<>>
    /\ r_model \in {SentenceModel, None}
    /\ r_index = None
    /\ r_chunks = <<>>
    /\ r_dimension = None
    /\ r_is_loaded = FALSE
    /\ r_pc = "idle"
    /\ InitIndexer
    /\ out = NoCall
    /\ th \in [query : QaQueries, qv : QueryVecs, max_chunks : 1..MaxK,
               llm : LlmOutcomes]

NextQA ==
    \/ \E d \in ServeDirs : LoadRetriever(d)
    \/ CallGenerateResponse

SpecQA == InitQA /\ [][NextQA]_vars

\* No stored vector scores min_score or more against the query.
NothingRelevant(qv) ==
    \A i \in 1..NTotal(r_index) :
        Scores(r_index, NormalizeL2(qv))[i] < QaMinScore

\* C25: when generate_response reaches retriever.search, a retriever that
\* is not loaded makes the search, and generate_response with it, raise
\* ValueError; a loaded retriever none of whose vectors reaches min_score
\* makes the search return an empty list without raising, and
\* generate_response return its answer without sources and without an error.
C25_EmptyResultIsNotAnError ==
    (out.op = "generate_response" /\ out.search # NoCall)
        => /\ ~r_is_loaded
                => out.search = Raise("ValueError") /\ out.res = out.search
           /\ (/\ r_is_loaded
               /\ r_model # None
               /\ Len(out.qv) = r_index.d
               /\ NothingRelevant(out.qv))
                => out.search = Ok(<<>>) /\ out.res = Ok(NoInformation)

\* A search on a loaded retriever with chunks found nothing relevant.
C25_Witness ==
    /\ out.op = "generate_response"
    /\ r_is_loaded
    /\ out.search = Ok(<<>>)
    /\ Len(r_chunks) > 0

\* The calls generate_response makes, in the order of its code.
CallOrder ==
    <<"is_out_of_scope", "is_medical_query", "search", "chat.completions.create">>

\* A record is a refusal without sources.
RefusalWithoutSources(r) ==
    /\ r.kind = "return"
    /\ r.value.sources = <<>>
    /\ r.value.confidence = 0

\* C29: generate_response checks in a fixed order and stops at the first
\* refusal: a query with an out-of-scope keyword is refused with
\* is_out_of_scope true and nothing else is asked; otherwise a query the
\* relevance gate rejects is refused with is_medical false; retriever.search
\* and the chat completion are called only for queries that pass both
\* checks, the completion after the search; and every refusal has empty
\* sources and confidence 0.
C29_ChecksInFixedOrder ==
    out.op = "generate_response"
        => /\ \E n \in 1..Len(CallOrder) : out.calls = SubSeq(CallOrder, 1, n)
           /\ IsOutOfScope(out.query)
                 => /\ out.calls = <<"is_out_of_scope">>
                    /\ RefusalWithoutSources(out.res)
                    /\ out.res.value.is_out_of_scope = TRUE
           /\ (~IsOutOfScope(out.query) /\ ~QaIsMedicalQuery(out.query))
                 => /\ out.calls = <<"is_out_of_scope", "is_medical_query">>
                    /\ RefusalWithoutSources(out.res)
                    /\ out.res.value.is_medical = FALSE
           /\ (\E i \in 1..Len(out.calls) :
                   out.calls[i] \in {"search", "chat.completions.create"})
                 => ~IsOutOfScope(out.query) /\ QaIsMedicalQuery(out.query)

\* A question with a medical word and an out-of-scope word was refused as
\* out of scope without the gate being asked.
C29_Witness ==
    /\ out.op = "generate_response"
    /\ IsOutOfScope(out.query)
    /\ QaIsMedicalQuery(out.query)
    /\ out.calls = <<"is_out_of_scope">>
    /\ out.res = Ok(OutOfScopeRefusal)

(***************************************************************************)
(* The lookups of MedicalRetriever over chunk lists of several sources.    *)
(* A source name is a string of characters, ordered as Python orders       *)
(* strings.                                                                *)
(***************************************************************************)
MaxLookupChunks == 3

SourceNames == {<<"a">>, <<"a", "b">>, <<"b">>}

\* ord() of the characters of the source names
Ord(c) == IF c = "a" THEN 97 ELSE 98

\* s < t on Python strings
PyStrLess(s, t) ==
    \E i \in 1..(Len(t)) :
        /\ \A j \in 1..(i - 1) : j <= Len(s) /\ s[j] = t[j]
        /\ (i > Len(s) \/ Ord(s[i]) < Ord(t[i]))

\* sorted(list(sources)) on a set of strings
RECURSIVE PySorted(_)
PySorted(S) ==
    IF S = {} THEN <<>>
    ELSE LET m == CHOOSE x \in S : \A y \in S \ {x} : PyStrLess(x, y)
         IN  <<m>> \o PySorted(S \ {m})

\* The sources of the chunks in list order, repeats and all: not what the
\* code does.
SourcesInListOrder(chunks) == [i \in 1..Len(chunks) |-> chunks[i].source]

\* get_available_sources (retriever.py:132-140)
GetAvailableSources(chunks) ==
    LET sources == {chunks[i].source : i \in 1..Len(chunks)}
    IN  PySorted(sources)

\* Chunks as ingestion writes them for several documents, and lists of them
\* in any order a chunks file can hold, the same chunk_id twice included.
LookupChunks ==
    {[chunk_id |-> <<s, i>>, source |-> s, text |-> {1}, chunk_index |-> i] :
        s \in SourceNames, i \in 0..1}

LookupChunkLists == UNION {[1..n -> LookupChunks] : n \in 0..MaxLookupChunks}

LookupIds == {<<s, i>> : s \in SourceNames, i \in 0..2}

lookupFrame == <<disk, builderVars, retrieverVars, r_pc, indexerVars, e_pc,
                 e_local, th, appVars>>

CallGetAvailableSources ==
    /\ out' = [op |-> "get_available_sources",
               res |-> GetAvailableSources(r_chunks)]
    /\ UNCHANGED lookupFrame

CallGetChunksBySource(source) ==
    /\ out' = [op |-> "get_chunks_by_source", source |-> source,
               res |-> GetChunksBySource(r_chunks, source)]
    /\ UNCHANGED lookupFrame

CallGetChunkById(chunk_id) ==
    /\ out' = [op |-> "get_chunk_by_id", chunk_id |-> chunk_id,
               res |-> GetChunkById(r_chunks, chunk_id)]
    /\ UNCHANGED lookupFrame

\* A retriever whose load_index read an index file and a chunks file that
\* some tool wrote.
InitLookups ==
    /\ disk = EmptyDir
    /\ conversation_history = <<>>
    /\ model_name = "gemini-1.5-flash"
    /\ b_pc = [at |-> "new", runs |-> 0]
    /\ b_chunks = <<>>
    /\ r_model = SentenceModel
    /\ r_index = BuiltIndex(ChunkList(<<{1}>>))
    /\ r_chunks \in LookupChunkLists
    /\ r_dimension = 1
    /\ r_is_loaded = TRUE
    /\ r_pc = "idle"
    /\ InitIndexer
    /\ out = NoCall
    /\ th = Idle

NextLookups ==
    \/ CallGetAvailableSources
    \/ \E source \in SourceNames : CallGetChunksBySource(source)
    \/ \E chunk_id \in LookupIds : CallGetChunkById(chunk_id)

SpecLookups == InitLookups /\ [][NextLookups]_vars

\* The positions of the chunks of a source, in list order.
RECURSIVE PositionsOf(_, _, _)
PositionsOf(chunks, source, i) ==
    IF i > Len(chunks) THEN <<>>
    ELSE (IF chunks[i].source = source THEN <<i>> ELSE <<>>)
         \o PositionsOf(chunks, source, i + 1)

\* C26: on any chunk list, get_available_sources lists each source once, in
\* ascending order, and lists s exactly when get_chunks_by_source(s) is not
\* empty; get_chunks_by_source(s) is the chunks of source s in list order;
\* get_chunk_by_id(c) is a chunk of the list with chunk_id c when there is
\* one and None when there is none.
C26_LookupsAgree ==
    /\ out.op = "get_available_sources"
          => /\ \A i \in 1..(Len(out.res) - 1) : PyStrLess(out.res[i], out.res[i + 1])
             /\ \A s \in SourceNames :
                    (\E i \in 1..Len(out.res) : out.res[i] = s)
                        <=> GetChunksBySource(r_chunks, s) # <<>>
    /\ out.op = "get_chunks_by_source"
          => LET at == PositionsOf(r_chunks, out.source, 1) IN
             /\ Len(out.res) = Len(at)
             /\ \A i \in 1..Len(at) : out.res[i] = r_chunks[at[i]]
             /\ (out.res # <<>>)
                    <=> \E i \in 1..Len(GetAvailableSources(r_chunks)) :
                            GetAvailableSources(r_chunks)[i] = out.source
    /\ out.op = "get_chunk_by_id"
          => IF \E i \in 1..Len(r_chunks) : r_chunks[i].chunk_id = out.chunk_id
             THEN /\ out.res # None
                  /\ out.res.chunk_id = out.chunk_id
                  /\ \E i \in 1..Len(r_chunks) : r_chunks[i] = out.res
             ELSE out.res = None

\* The sources of a list with a repeated source, out of order, were listed.
C26_Witness ==
    /\ out.op = "get_available_sources"
    /\ Len(r_chunks) = MaxLookupChunks
    /\ r_chunks[1].source = <<"b">>
    /\ r_chunks[2].source = <<"a">>
    /\ r_chunks[3].source = <<"b">>

(***************************************************************************)
(* FixedRAGGeminiMedicalChatbot.call_gemini_api                            *)
(* (src/Medical_AI_Assistant.py:467-526), one request a step.              *)
(***************************************************************************)
\* self.available_models (Medical_AI_Assistant.py:24)
available_models ==
    <<"gemini-2.0-flash-exp", "gemini-1.5-pro", "gemini-1.5-flash", "gemini-pro",
      "gemini-1.5-flash-001">>

\* endpoints (Medical_AI_Assistant.py:481-484)
endpoints == <<"v1beta", "v1">>

\* What one request can meet: a 200 whose body holds the text; a 200 whose
\* JSON body has no candidate text (a blocked prompt); a 200 whose body is
\* not JSON; an HTTPError of some code; an error below HTTP (URLError,
\* timeout).
RequestOutcomes ==
    {"text", "no_candidates", "not_json", "404", "403", "400", "500", "URLError"}

\* The strings call_gemini_api returns (Medical_AI_Assistant.py:504, 512,
\* 516, 520, 526).
Text(model) == [kind |-> "text", model |-> model]

ApiError(what, model, endpoint) ==
    [kind |-> "API Error", what |-> what, model |-> model, endpoint |-> endpoint]

AllUnavailable ==
    [kind |-> "API Error", what |-> "All models and endpoints unavailable"]

geminiFrame == <<disk, builderVars, retrieverVars, r_pc, indexerVars, e_pc,
                 e_local, conversation_history>>

\* call_gemini_api(prompt) is entered (Medical_AI_Assistant.py:469-487).
BeginCallGeminiApi ==
    /\ th = Idle
    /\ th' = [at |-> "request", endpoint |-> 1, model |-> 1, tried |-> <<>>,
              met |-> "nothing", before |-> model_name]
    /\ out' = NoCall
    /\ UNCHANGED <<geminiFrame, model_name>>

\* The turn of the loops after a continue.
NextRequest(t) ==
    IF t.model < Len(available_models)
    THEN [t EXCEPT !.model = @ + 1]
    ELSE [t EXCEPT !.endpoint = @ + 1, !.model = 1]

\* call_gemini_api returns res: to chat when chat called it (line 608).
Returns(t, res) ==
    /\ out' = [op |-> "call_gemini_api", tried |-> t.tried, met |-> t.met,
               before |-> t.before, res |-> res]
    /\ th' = IF "chat" \in DOMAIN t
             THEN [at |-> "chat", chat |-> t.chat, response_text |-> res]
             ELSE Idle

\* One pass through the try statement (Medical_AI_Assistant.py:489-523).
Request(outcome) ==
    /\ th # Idle
    /\ th.at = "request"
    /\ th.endpoint <= Len(endpoints)
    /\ LET model == available_models[th.model]
           endpoint == endpoints[th.endpoint]
           t == [th EXCEPT !.tried = Append(@, <<endpoint, model>>),
                           !.met = outcome]
       IN  CASE outcome = "text" ->
                    /\ model_name' = model
                    /\ Returns(t, Text(model))
             [] outcome = "no_candidates" ->
                    /\ model_name' = model
                    /\ th' = NextRequest(t)
                    /\ UNCHANGED out
             [] outcome \in {"not_json", "404", "URLError"} ->
                    /\ th' = NextRequest(t)
                    /\ UNCHANGED <<out, model_name>>
             [] outcome = "403" ->
                    /\ Returns(t, ApiError("Permission denied", model, endpoint))
                    /\ UNCHANGED model_name
             [] outcome = "400" ->
                    /\ Returns(t, ApiError("Bad request", model, endpoint))
                    /\ UNCHANGED model_name
             [] outcome = "500" ->
                    /\ Returns(t, ApiError("500", model, endpoint))
                    /\ UNCHANGED model_name
    /\ UNCHANGED geminiFrame

\* Both loops are over (Medical_AI_Assistant.py:525-526).
AllRequestsFailed ==
    /\ th # Idle
    /\ th.at = "request"
    /\ th.endpoint > Len(endpoints)
    /\ Returns(th, AllUnavailable)
    /\ UNCHANGED <<geminiFrame, model_name>>

\* A chatbot as constructed (Medical_AI_Assistant.py:17-24).
InitGemini ==
    /\ disk = EmptyDir
    /\ conversation_history = <<>>
    /\ model_name = "gemini-1.5-flash"
    /\ b_pc = [at |-> "new", runs |-> 0]
    /\ b_chunks = <<>>
    /\ InitRetriever
    /\ InitIndexer
    /\ out = NoCall
    /\ th = Idle

NextGemini ==
    \/ BeginCallGeminiApi
    \/ \E outcome \in RequestOutcomes : Request(outcome)
    \/ AllRequestsFailed

SpecGemini == InitGemini /\ [][NextGemini]_vars

\* Endpoints in order and, within each, the models in list order.
RequestOrder ==
    [n \in 1..(Len(endpoints) * Len(available_models)) |->
        <<endpoints[1 + ((n - 1) \div Len(available_models))],
          available_models[1 + ((n - 1) % Len(available_models))]>>]

\* C27: call_gemini_api returns after at most endpoints x models requests,
\* made in that order; a request that succeeds ends the call with
\* its text and model_name set to its model; any other HTTP error ends it
\* with an 'API Error' string; and when no request succeeds the call
\* returns the 'All models and endpoints unavailable' error and model_name
\* is what it was before the call.
C27_GeminiFallbackOrder ==
    out.op = "call_gemini_api"
        => LET n == Len(out.tried)
               last == out.tried[n]
           IN  /\ n >= 1
               /\ n <= Len(endpoints) * Len(available_models)
               /\ \A i \in 1..n : /\ out.tried[i][1] = RequestOrder[i][1]
                                  /\ out.tried[i][2] = RequestOrder[i][2]
               /\ out.res.kind = "text"
                     => /\ out.met = "text"
                        /\ out.res.model = last[2]
                        /\ model_name = last[2]
               /\ (out.res.kind = "API Error" /\ out.res # AllUnavailable)
                     => out.met \in {"403", "400", "500"}
               /\ out.res = AllUnavailable
                     => /\ n = Len(endpoints) * Len(available_models)
                        /\ model_name = out.before


(***************************************************************************)
(* The conversation history of MedicalQA (src/src/qa.py).  th holds what   *)
(* the caller has had added, in order, since the MedicalQA was made.       *)
(***************************************************************************)
\* The history keeps the last 10 exchanges (qa.py:200-201).
HistoryLimit == 10

\* The number of exchanges a caller adds.
MaxExchanges == 12

\* max_chunks: int = 5 (qa.py:101)
DefaultMaxChunks == 5

Exchange(query, response) ==
    [query |-> query, response |-> response, timestamp |-> None]

\* A history cut at its head: not what the code does.
KeepFirstExchanges(history, query, response) ==
    LET appended == Append(history, Exchange(query, response)) IN
    IF Len(appended) > HistoryLimit
    THEN SubSeq(appended, 1, HistoryLimit)
    ELSE appended

\* add_to_conversation (qa.py:191-201): the history it leaves.
add_to_conversation(history, query, response) ==
    LET appended == Append(history, Exchange(query, response)) IN
    IF Len(appended) > HistoryLimit
    THEN SubSeq(appended, Len(appended) - HistoryLimit + 1, Len(appended))
    ELSE appended

\* An index directory with which the question about fever finds chunks.
HistoryQv == <<Scale, 0>>
HistoryDir ==
    CHOOSE d \in ServeDirs :
        LET after == LoadIndex(None, <<>>, None, FALSE, d) IN
        /\ after.is_loaded
        /\ RetrieverSearch(after.index, after.chunks, TRUE, SentenceModel,
                           HistoryQv, DefaultMaxChunks, QaMinScore)
              \notin {Ok(<<>>), Raise("ValueError"), Raise("AssertionError")}

\* The questions of the conversation and, for add_to_conversation called
\* by hand, the exchange it is given.
HistoryQueries == {<<"F", "e", "v", "e", "r">>, <<"h", "i">>}
HistoryExchanges == { <<(<<"h", "i">>), NotMedicalRefusal.response>> }

historyFrame == <<disk, builderVars, r_pc, indexerVars, e_pc, e_local,
                  model_name>>

\* add_to_conversation (qa.py:191-201)
AddToConversation(query, response) ==
    /\ Len(th.added) < MaxExchanges
    /\ conversation_history' =
           add_to_conversation(conversation_history, query, response)
    /\ th' = [th EXCEPT !.added = Append(@, Exchange(query, response))]
    /\ out' = [op |-> "add_to_conversation", res |-> Ok(None)]
    /\ UNCHANGED <<historyFrame, retrieverVars>>

\* generate_contextual_response (qa.py:215-234): generate_response, and
\* when that returns, add_to_conversation with its response text.
GenerateContextualResponse(query) ==
    LET done == GenerateResponse(r_index, r_chunks, r_is_loaded, r_model,
                                 query, HistoryQv, DefaultMaxChunks,
                                 Ok(<<"answer">>))
    IN  /\ Len(th.added) < MaxExchanges
        /\ out' = [op |-> "generate_contextual_response", res |-> done.res]
        /\ IF done.res.kind = "raise"
           THEN UNCHANGED <<conversation_history, th>>
           ELSE /\ conversation_history' =
                       add_to_conversation(conversation_history, query,
                                           done.res.value.response)
                /\ th' = [th EXCEPT !.added =
                            Append(@, Exchange(query, done.res.value.response))]
        /\ UNCHANGED <<historyFrame, retrieverVars>>

\* load_retriever (qa.py:43-45) while the conversation goes on.
HistoryLoadRetriever(d) ==
    /\ LoadRetriever(d)
    /\ th.at = "chatting"

\* A MedicalQA as constructed (qa.py:24-27) and nothing added yet.
InitHistory ==
    /\ disk = EmptyDir
    /\ conversation_history = <<>>
    /\ model_name = "gemini-1.5-flash"
    /\ b_pc = [at |-> "new", runs |-> 0]
    /\ b_chunks = <<>>
    /\ r_model = SentenceModel
    /\ r_index = None
    /\ r_chunks = <<>>
    /\ r_dimension = None
    /\ r_is_loaded = FALSE
    /\ r_pc = "idle"
    /\ InitIndexer
    /\ out = NoCall
    /\ th = [at |-> "chatting", added |-> <<>>]

NextHistory ==
    \/ HistoryLoadRetriever(HistoryDir)
    \/ \E x \in HistoryExchanges : AddToConversation(x[1], x[2])
    \/ \E query \in HistoryQueries : GenerateContextualResponse(query)

SpecHistory == InitHistory /\ [][NextHistory]_vars

\* The last n elements of a sequence, all of them when it has fewer.
LastOf(s, n) ==
    IF Len(s) > n THEN SubSeq(s, Len(s) - n + 1, Len(s)) ELSE s

\* C28: after any sequence of add_to_conversation and
\* generate_contextual_response calls, conversation_history holds at most
\* 10 exchanges, and they are the most recent ones added, in the order in
\* which they were added.
C28_HistoryIsLastTen ==
    th.at = "chatting"
        => /\ Len(conversation_history) <= HistoryLimit
           /\ conversation_history = LastOf(th.added, HistoryLimit)

\* More than ten exchanges were added, the last by
\* generate_contextual_response, and the oldest is gone.
C28_Witness ==
    /\ th.at = "chatting"
    /\ Len(th.added) > HistoryLimit
    /\ out.op = "generate_contextual_response"
    /\ out.res.kind = "return"
    /\ Len(conversation_history) = HistoryLimit
    /\ conversation_history[1] # th.added[1]


(***************************************************************************)
(* chat (src/Medical_AI_Assistant.py): the gate, the Gemini call and the   *)
(* record it returns.  The chatbot's disclaimer (line 19) is the string of *)
(* qa.py:30, the piece Disclaimer.                                         *)
(***************************************************************************)
\* What parts[0].text of a 200 response can be: a string with or without
\* the disclaimer, with the disclaimer in the prompt's wording (line 597),
\* with the words the fallback test looks for, or not a string.
ChatTexts ==
    { [str |-> <<"answer">>],
      [str |-> <<"answer", "disclaimer">>],
      [str |-> <<"answer", "disclaimer as prompted">>],
      [str |-> <<"answer", "API Error">>],
      [number |-> 0] }

ChatQueries == {<<"F", "e", "v", "e", "r">>, <<"h", "i">>}

\* The string call_gemini_api returned, as chat sees it.
ResponseText(res, text) ==
    IF res.kind = "text" THEN text
    ELSE [str |-> <<"API Error", res.what>>]

\* The refusal (lines 578-585).
ChatNotMedical(model) ==
    [response |-> <<"only help with health-related questions">>,
     is_medical |-> FALSE, sources |-> <<>>, disclaimer |-> Disclaimer,
     model |-> model, rag |-> TRUE]

\* The fallback (lines 611-630).
ChatFallback(query) ==
    [response |-> <<"Based on medical knowledge", "medical_context", query,
                    "Please note", "\n\n">> \o Disclaimer,
     is_medical |-> TRUE, sources |-> <<"rag_medical_knowledge_fallback">>,
     disclaimer |-> Disclaimer, model |-> "RAG-only (API unavailable)",
     rag |-> TRUE]

\* A text returned as the API gave it: not what the code does.
LeaveAsIs(response_text) == response_text

\* Ensure disclaimer is included (lines 632-634).
EnsureDisclaimer(response_text) ==
    IF ~StrContains(response_text, Disclaimer)
    THEN response_text \o <<"\n\n">> \o Disclaimer
    ELSE response_text

\* chat after call_gemini_api returned (lines 610-643); the in tests of
\* line 611 raise TypeError on a value that is not a string.
ChatBody(query, response_text, model) ==
    IF "str" \notin DOMAIN response_text THEN Raise("TypeError")
    ELSE IF \/ StrContains(response_text.str, <<"Error calling Gemini API">>)
            \/ StrContains(response_text.str, <<"API Error">>)
    THEN Ok(ChatFallback(query))
    ELSE Ok([response |-> EnsureDisclaimer(response_text.str),
             is_medical |-> TRUE, sources |-> <<"rag_medical_knowledge">>,
             disclaimer |-> Disclaimer, model |-> model, rag |-> TRUE])

\* except Exception (lines 645-654)
ChatExcept(body, model) ==
    IF body.kind = "raise"
    THEN Ok([response |-> <<"I apologize", "\n\n">> \o Disclaimer,
             is_medical |-> TRUE, sources |-> <<>>, disclaimer |-> Disclaimer,
             model |-> model, rag |-> TRUE, error |-> body.value])
    ELSE body

\* chat (lines 573-608): a query the gate rejects is refused; for any other
\* call_gemini_api is entered.  text is what the API says if it answers.
BeginChat(query, text) ==
    /\ th = Idle
    /\ IF ~IsMedicalQuery(query)
       THEN /\ out' = [op |-> "chat", query |-> query,
                       res |-> Ok(ChatNotMedical(model_name))]
            /\ th' = Idle
       ELSE /\ out' = NoCall
            /\ th' = [at |-> "request", endpoint |-> 1, model |-> 1,
                      tried |-> <<>>, met |-> "nothing", before |-> model_name,
                      chat |-> [query |-> query, text |-> text]]
    /\ UNCHANGED <<geminiFrame, model_name>>

\* chat from the return of call_gemini_api to its own (lines 608-654).
ChatReturn ==
    /\ th.at = "chat"
    /\ out' = [op |-> "chat", query |-> th.chat.query,
               call |-> th.response_text,
               res |-> ChatExcept(ChatBody(th.chat.query,
                                           ResponseText(th.response_text,
                                                        th.chat.text),
                                           model_name),
                                  model_name)]
    /\ th' = Idle
    /\ UNCHANGED <<geminiFrame, model_name>>

NextChat ==
    \/ \E query \in ChatQueries, text \in ChatTexts : BeginChat(query, text)
    \/ \E outcome \in RequestOutcomes : Request(outcome)
    \/ AllRequestsFailed
    \/ ChatReturn

SpecChat == InitGemini /\ [][NextChat]_vars

\* C30: chat returns a record and never raises; the record carries the
\* disclaimer field; and when it is marked is_medical true its response
\* text contains the disclaimer, whether the API answered, the fallback
\* was used or the call failed.
C30_ChatAlwaysCarriesDisclaimer ==
    out.op = "chat"
        => /\ out.res.kind = "return"
           /\ "disclaimer" \in DOMAIN out.res.value
           /\ out.res.value.disclaimer = Disclaimer
           /\ out.res.value.is_medical
                 => StrContains(out.res.value.response, Disclaimer)

\* The API answered without the disclaimer and chat added it.
C30_Witness ==
    /\ out.op = "chat"
    /\ "call" \in DOMAIN out
    /\ out.call = Text(out.res.value.model)
    /\ out.res.value.is_medical
    /\ out.res.value.response = <<"answer", "\n\n">> \o Disclaimer

====
